---- MODULE Spec2Model ----
(***************************************************************************)
(* A model of the Maze (Labyrinth) rules engine and referee:               *)
(*   Common/tile.py, Common/board.py, Common/state.py, Referee/referee.py. *)
(* Pure methods of the immutable values (Tile, Board, GameState) are       *)
(* operators that return a result record [err, st]; err = "OK" when the    *)
(* method returns, otherwise the name of the exception it raises.          *)
(* Two state machines use them:                                            *)
(*   SpecState  calls the GameState transition methods in any order;       *)
(*   Spec       is AsyncReferee.start_game_from_state, one step per        *)
(*              player call.                                               *)
(***************************************************************************)
EXTENDS Integers, Sequences, FiniteSets, TLC

VARIABLES
    gs,                \* SpecState: the GameState value under exploration
    last,              \* SpecState: the last method call and how it ended
    steps,             \* SpecState: number of accepted transitions so far
    undo_rejected,     \* SpecState: the last shift rejected for being the reverse of the previous one
    names,             \* SpecMethods: the name attribute of the PlayerState objects of gs, by color
    mutated,           \* SpecMethods: the attributes of its receiver that the last call changed
    pc,                \* Spec: position of start_game_from_state
    input,             \* Spec: the arguments of start_game_from_state
    named,             \* Spec: colors of the players that gave a name (player_map keys)
    state,             \* Spec: the referee's current GameState
    state0,            \* Spec: `state` of start_game_from_state after _configure_game
    goal_queue,        \* Spec: AsyncReferee.goal_queue
    idx,               \* Spec: loop position inside the current phase
    setup_failed,      \* Spec: ejected_player_colors of _configure_game
    current_round,     \* Spec: current_round of _run_game
    round_size,        \* Spec: round_size of _run_round
    any_player_moved,  \* Spec: any_player_moved of _run_round
    calls,             \* Spec: per player, how many calls of each method it received
    failed,            \* Spec: per player, the method of its first failed call ("" if none)
    lastCall,          \* Spec: the last player call: who, which method, its outcome
    turn,              \* Spec: what the last processed turn did
    view,              \* Spec: the RestrictedGameState passed in the last setup(state, goal) or take_turn call
    goals_sent,        \* Spec: the setup(None, goal) calls made so far: to whom, with which goal
    round_log,         \* Spec: the turn order at the start of the last round begun, and its turns so far
    ending,            \* Spec: why _run_game returned, and the player that triggered it
    win_failed,        \* Spec: ejected_players of _notify_winners
    run_outcome,       \* Spec: the GameOutcome returned by _run_game / _configure_game
    outcome,           \* Spec: the GameOutcome returned by start_game_from_state
    observer,          \* Spec: what an observer of the game received so far
    create,            \* SpecCreate: the locals of create_initial_game_state and what it returned
    player_obj,        \* SpecPlayer: a Player object, the last call made to it and how it ended
    strategy           \* SpecStrategy: a state given to a strategy, the action it chose and its replay

stateVars == <<gs, last, steps, undo_rejected, names, mutated>>
refVars == <<pc, input, named, state, state0, goal_queue, idx, setup_failed,
             current_round, round_size, any_player_moved, calls, failed,
             lastCall, turn, view, round_log, goals_sent, ending, win_failed, run_outcome, outcome,
             observer>>
createVars == <<create>>
playerVars == <<player_obj, strategy>>
vars == <<gs, last, steps, undo_rejected, names, mutated, pc, input, named, state, state0, goal_queue, idx,
          setup_failed, current_round, round_size, any_player_moved, calls,
          failed, lastCall, turn, view, round_log, goals_sent, ending, win_failed,
          run_outcome,
          outcome,
          observer,
          create, player_obj, strategy>>

\* Python's None (a record, so that it compares with the records it stands in for)
None == [none |-> TRUE]

(***************************************************************************)
(* Results of methods that may raise.                                      *)
(***************************************************************************)
Ok(st) == [err |-> "OK", st |-> st]
Raise(e, st) == [err |-> e, st |-> st]

(***************************************************************************)
(* Common/utils.py                                                         *)
(***************************************************************************)
Coord(col, row) == [col |-> col, row |-> row]

squared_euclidean_distance(coord1, coord2) ==
    (coord1.row - coord2.row) * (coord1.row - coord2.row)
        + (coord1.col - coord2.col) * (coord1.col - coord2.col)

(***************************************************************************)
(* Common/tile.py: Direction                                               *)
(***************************************************************************)
all_directions == <<"UP", "RIGHT", "DOWN", "LEFT">>
Direction == {"UP", "RIGHT", "DOWN", "LEFT"}

direction_index(d) == CHOOSE i \in 1..4 : all_directions[i] = d

rotated(d, rotation) == all_directions[((direction_index(d) - 1 + rotation) % 4) + 1]

flip(d) == rotated(d, 2)

dx(d) == CASE d = "UP" -> 0 [] d = "RIGHT" -> 1 [] d = "DOWN" -> 0 [] d = "LEFT" -> -1

dy(d) == CASE d = "UP" -> -1 [] d = "RIGHT" -> 0 [] d = "DOWN" -> 1 [] d = "LEFT" -> 0

is_vertical(d) == d \in {"UP", "DOWN"}

is_horizontal(d) == d \in {"LEFT", "RIGHT"}

(***************************************************************************)
(* Common/tile.py: TileShape and Tile                                      *)
(***************************************************************************)
TileShape == {"LINE", "CORNER", "TEE", "CROSS"}

shape_connected_directions(shape) ==
    CASE shape = "LINE" -> {"UP", "DOWN"}
      [] shape = "CORNER" -> {"UP", "RIGHT"}
      [] shape = "TEE" -> {"RIGHT", "DOWN", "LEFT"}
      [] shape = "CROSS" -> {"UP", "RIGHT", "DOWN", "LEFT"}

Tile(shape, rotation, gems) == [shape |-> shape, rotation |-> rotation, gems |-> gems]

connected_directions(tile) ==
    {rotated(d, tile.rotation) : d \in shape_connected_directions(tile.shape)}

\* Mutant: the copy keeps the rotation of the tile.
rotate_keeps_rotation(tile, new_rotation) == tile

rotate(tile, new_rotation) == Tile(tile.shape, new_rotation, tile.gems)

tile_eq(t1, t2) ==
    /\ t1.shape = t2.shape
    /\ connected_directions(t1) = connected_directions(t2)
    /\ t1.gems = t2.gems

(***************************************************************************)
(* Common/board.py: Board                                                  *)
(***************************************************************************)
Board(tiles, width, height) == [tiles |-> tiles, width |-> width, height |-> height]

BoardCoords(board) ==
    {Coord(x, y) : x \in 0..(board.width - 1), y \in 0..(board.height - 1)}

in_bounds(board, which_coord) ==
    /\ 0 <= which_coord.col /\ which_coord.col < board.width
    /\ 0 <= which_coord.row /\ which_coord.row < board.height

\* Mutant: the rows and columns of odd index are the ones that move.
is_moveable_row_or_column_odd(which_index) == which_index % 2 = 1

is_moveable_row_or_column(which_index) == which_index % 2 = 0

get_all_fixed_tiles(board) ==
    {c \in BoardCoords(board) :
        ~is_moveable_row_or_column(c.row) /\ ~is_moveable_row_or_column(c.col)}

get_valid_insert_locations(board, direction) ==
    IF is_vertical(direction)
    THEN LET row == IF direction = "DOWN" THEN 0 ELSE board.height - 1
         IN  IF ~is_moveable_row_or_column(row) THEN {}
             ELSE {Coord(col, row) : col \in {c \in 0..(board.width - 1) :
                                                 is_moveable_row_or_column(c)}}
    ELSE LET col == IF direction = "RIGHT" THEN 0 ELSE board.width - 1
         IN  IF ~is_moveable_row_or_column(col) THEN {}
             ELSE {Coord(col, row) : row \in {r \in 0..(board.height - 1) :
                                                 is_moveable_row_or_column(r)}}

\* Mutant: the edge is checked before the fixed rows and columns.
assert_valid_shift_and_insert_edge_first(board, which_coord, direction) ==
    IF ~in_bounds(board, which_coord) THEN "IndexError"
    ELSE IF which_coord \notin get_valid_insert_locations(board, direction)
    THEN "ValueError"
    ELSE IF ~(is_moveable_row_or_column(which_coord.col)
              /\ is_moveable_row_or_column(which_coord.row))
    THEN "ShiftNotAllowedError"
    ELSE "OK"

\* The exception assert_valid_shift_and_insert raises, or "OK".
assert_valid_shift_and_insert(board, which_coord, direction) ==
    IF ~in_bounds(board, which_coord) THEN "IndexError"
    ELSE IF ~(is_moveable_row_or_column(which_coord.col)
              /\ is_moveable_row_or_column(which_coord.row))
    THEN "ShiftNotAllowedError"
    ELSE IF which_coord \notin get_valid_insert_locations(board, direction)
    THEN "ValueError"
    ELSE "OK"

\* dict.get(coord, coord) on the replacement map
replacement_of(replacements, coord) ==
    IF coord \in DOMAIN replacements THEN replacements[coord] ELSE coord

\* The dict comprehension of _slide_row / _slide_column: every tile but the
\* dropped one, under its new coordinate.
moved_tiles(board, replacements, dropped_coord) ==
    LET kept == (DOMAIN board.tiles) \ {dropped_coord}
        keys == {replacement_of(replacements, c) : c \in kept}
    IN  [k \in keys |->
            board.tiles[CHOOSE c \in kept : replacement_of(replacements, c) = k]]

\* Mutant: the tile reported as dropped is the one at the insert end of the row.
_slide_row_drops_near_edge(board, which_row, direction) ==
    LET dropped_coord == IF direction = "LEFT" THEN Coord(0, which_row)
                         ELSE Coord(board.width - 1, which_row)
        d == dx(direction)
        src == {Coord(x, which_row) : x \in {x \in 0..(board.width - 1) :
                                               0 <= x + d /\ x + d < board.width}}
        coord_replacements == [c \in src |-> Coord(c.col + d, which_row)]
    IN  [new_tiles |-> moved_tiles(board, coord_replacements, dropped_coord),
         new_spare |-> board.tiles[Coord(board.width - 1 - dropped_coord.col, which_row)],
         edit |-> [replacements |-> coord_replacements, deletions |-> {dropped_coord}]]

_slide_row(board, which_row, direction) ==
    LET dropped_coord == IF direction = "LEFT" THEN Coord(0, which_row)
                         ELSE Coord(board.width - 1, which_row)
        d == dx(direction)
        src == {Coord(x, which_row) : x \in {x \in 0..(board.width - 1) :
                                               0 <= x + d /\ x + d < board.width}}
        coord_replacements == [c \in src |-> Coord(c.col + d, which_row)]
    IN  [new_tiles |-> moved_tiles(board, coord_replacements, dropped_coord),
         new_spare |-> board.tiles[dropped_coord],
         edit |-> [replacements |-> coord_replacements, deletions |-> {dropped_coord}]]

_slide_column(board, which_col, direction) ==
    LET dropped_coord == IF direction = "UP" THEN Coord(which_col, 0)
                         ELSE Coord(which_col, board.height - 1)
        d == dy(direction)
        src == {Coord(which_col, y) : y \in {y \in 0..(board.height - 1) :
                                               0 <= y + d /\ y + d < board.height}}
        coord_replacements == [c \in src |-> Coord(which_col, c.row + d)]
    IN  [new_tiles |-> moved_tiles(board, coord_replacements, dropped_coord),
         new_spare |-> board.tiles[dropped_coord],
         edit |-> [replacements |-> coord_replacements, deletions |-> {dropped_coord}]]

\* new_tiles[which_coord] = tile
with_tile(tiles, which_coord, tile) ==
    [c \in (DOMAIN tiles) \cup {which_coord} |->
        IF c = which_coord THEN tile ELSE tiles[c]]

\* [err, board, spare, edit]; the fields other than err are meaningful when err = "OK".
slide_and_insert_tile(board, which_coord, direction, tile) ==
    LET chk == assert_valid_shift_and_insert(board, which_coord, direction)
        slid == IF is_vertical(direction)
                THEN _slide_column(board, which_coord.col, direction)
                ELSE _slide_row(board, which_coord.row, direction)
    IN  IF chk # "OK"
        THEN [err |-> chk, board |-> board, spare |-> tile, edit |-> None]
        ELSE [err |-> "OK",
              board |-> Board(with_tile(slid.new_tiles, which_coord, tile),
                              board.width, board.height),
              spare |-> slid.new_spare,
              edit |-> slid.edit]

\* The (direction, coordinate) pairs a tile's own roads lead to, on the board.
_adjacent_tiles(board, which_coord) ==
    IF which_coord \notin DOMAIN board.tiles THEN {}
    ELSE {p \in {<<d, Coord(which_coord.col + dx(d), which_coord.row + dy(d))>> :
                    d \in connected_directions(board.tiles[which_coord])} :
            p[2] \in DOMAIN board.tiles}

\* Mutant: a road of the tile itself is enough, whatever the tile it leads to.
_neighbors_one_way(board, which_coord) ==
    {p[2] : p \in _adjacent_tiles(board, which_coord)}

_neighbors(board, which_coord) ==
    {p[2] : p \in {q \in _adjacent_tiles(board, which_coord) :
                     flip(q[1]) \in connected_directions(board.tiles[q[2]])}}

\* A set as a sequence, in (row, col) order.
RECURSIVE SetToSeq(_)
SetToSeq(S) ==
    IF S = {} THEN <<>>
    ELSE LET m == CHOOSE c \in S : \A o \in S :
                     c.row < o.row \/ (c.row = o.row /\ c.col <= o.col)
         IN  <<m>> \o SetToSeq(S \ {m})

\* The while loop of reachable_destinations: a depth-first search with a stack.
RECURSIVE dfs(_, _, _, _)
dfs(board, frontier, reachable, seen) ==
    IF Len(frontier) = 0 THEN reachable
    ELSE LET current == frontier[Len(frontier)]
             rest == SubSeq(frontier, 1, Len(frontier) - 1)
             reachable2 == reachable \cup {current}
             fresh == {n \in _neighbors(board, current) :
                          n \notin reachable2 /\ n \notin seen}
         IN  dfs(board, rest \o SetToSeq(fresh), reachable2, seen \cup fresh)

\* Mutant: the search stops at the neighbors of the start.
reachable_destinations_one_step(board, start_coord) ==
    {start_coord} \cup _neighbors(board, start_coord)

\* Precondition: start_coord is in bounds (otherwise the method raises IndexError).
reachable_destinations(board, start_coord) == dfs(board, <<start_coord>>, {}, {})

(***************************************************************************)
(* Common/state.py: ShiftOp, PrevAction, PlayerSecret, PlayerState         *)
(***************************************************************************)
ShiftOp(insert_location, direction) ==
    [insert_location |-> insert_location, direction |-> direction]

\* Mutant: the reverse always shifts the first row or column.
reverse_first_line(op, board) ==
    LET col == IF is_vertical(op.direction) THEN 0
               ELSE IF op.insert_location.col = 0 THEN board.width - 1 ELSE 0
        row == IF is_vertical(op.direction)
               THEN (IF op.insert_location.row = 0 THEN board.height - 1 ELSE 0)
               ELSE 0
    IN  ShiftOp(Coord(col, row), flip(op.direction))

reverse(op, board) ==
    LET col == IF is_vertical(op.direction) THEN op.insert_location.col
               ELSE IF op.insert_location.col = 0 THEN board.width - 1 ELSE 0
        row == IF is_vertical(op.direction)
               THEN (IF op.insert_location.row = 0 THEN board.height - 1 ELSE 0)
               ELSE op.insert_location.row
    IN  ShiftOp(Coord(col, row), flip(op.direction))

EmptyPrevAction == [kind |-> "EMPTY", shift |-> None]

PartialTurnPrevAction(shift) == [kind |-> "PARTIAL_TURN", shift |-> shift]

CompleteTurnPrevAction(shift) == [kind |-> "COMPLETE_TURN", shift |-> shift]

complete(prev_action) == CompleteTurnPrevAction(prev_action.shift)

PlayerSecret(treasure_location, is_going_home, treasure_count) ==
    [treasure_location |-> treasure_location, is_going_home |-> is_going_home,
     treasure_count |-> treasure_count]

set_is_going_home(secret) ==
    PlayerSecret(secret.treasure_location, TRUE, secret.treasure_count + 1)

\* Mutant: the new goal is set without counting the treasure found.
set_new_goal_keeps_count(secret, new_goal) ==
    PlayerSecret(new_goal, FALSE, secret.treasure_count)

set_new_goal(secret, new_goal) == PlayerSecret(new_goal, FALSE, secret.treasure_count + 1)

PlayerState(home_location, location) ==
    [home_location |-> home_location, location |-> location]

with_location(ps, new_location) == PlayerState(ps.home_location, new_location)

\* Mutant: a player on the tile that leaves the board stays where it stood.
move_with_board_stays_if_deleted(ps, edit, position_if_deleted) ==
    IF ps.location \in DOMAIN edit.replacements
    THEN with_location(ps, edit.replacements[ps.location])
    ELSE ps

move_with_board(ps, edit, position_if_deleted) ==
    IF ps.location \in edit.deletions THEN with_location(ps, position_if_deleted)
    ELSE IF ps.location \in DOMAIN edit.replacements
    THEN with_location(ps, edit.replacements[ps.location])
    ELSE ps

(***************************************************************************)
(* Common/state.py: GameState.  player_colors is the turn order (the keys  *)
(* of the OrderedDict), current_player_index is 0-based as in the source.  *)
(***************************************************************************)
GameState(player_colors, player_states, player_secrets, spare_tile, board, prev_action, index) ==
    [player_colors |-> player_colors, player_states |-> player_states,
     player_secrets |-> player_secrets, spare_tile |-> spare_tile, board |-> board,
     prev_action |-> prev_action, current_player_index |-> index]

num_players(s) == Len(s.player_colors)

current_player_color(s) == s.player_colors[s.current_player_index + 1]

current_player_state(s) == s.player_states[current_player_color(s)]

get_current_player_secret(s) == s.player_secrets[current_player_color(s)]

\* Mutant: the spare tile may be rotated between a shift and its move.
rotate_spare_tile_any_time(s, degrees) ==
    IF degrees % 90 # 0 THEN Raise("ValueError", s)
    ELSE LET relative_rotation == degrees \div 90
             new_rotation == (relative_rotation + s.spare_tile.rotation) % 4
         IN  Ok([s EXCEPT !.spare_tile = rotate(s.spare_tile, new_rotation)])

rotate_spare_tile(s, degrees) ==
    IF degrees % 90 # 0 THEN Raise("ValueError", s)
    ELSE IF s.prev_action.kind = "PARTIAL_TURN" THEN Raise("TurnContractViolation", s)
    ELSE LET relative_rotation == degrees \div 90
             new_rotation == (relative_rotation + s.spare_tile.rotation) % 4
         IN  Ok([s EXCEPT !.spare_tile = rotate(s.spare_tile, new_rotation)])

\* Mutant: the shift that undoes the previous one is not refused.
shift_tiles_undo_allowed(s, operation) ==
    IF s.prev_action.kind = "PARTIAL_TURN" THEN Raise("TurnContractViolation", s)
    ELSE LET r == slide_and_insert_tile(s.board, operation.insert_location,
                                        operation.direction, s.spare_tile)
         IN  IF r.err # "OK" THEN Raise(r.err, s)
             ELSE Ok([s EXCEPT
                        !.player_states =
                            [c \in DOMAIN s.player_states |->
                                move_with_board(s.player_states[c], r.edit,
                                                operation.insert_location)],
                        !.spare_tile = r.spare,
                        !.board = r.board,
                        !.prev_action = PartialTurnPrevAction(operation)])

shift_tiles(s, operation) ==
    IF s.prev_action.kind = "PARTIAL_TURN" THEN Raise("TurnContractViolation", s)
    ELSE IF s.prev_action.kind # "EMPTY" /\ reverse(operation, s.board) = s.prev_action.shift
    THEN Raise("UndoNotAllowedError", s)
    ELSE LET r == slide_and_insert_tile(s.board, operation.insert_location,
                                        operation.direction, s.spare_tile)
         IN  IF r.err # "OK" THEN Raise(r.err, s)
             ELSE Ok([s EXCEPT
                        !.player_states =
                            [c \in DOMAIN s.player_states |->
                                move_with_board(s.player_states[c], r.edit,
                                                operation.insert_location)],
                        !.spare_tile = r.spare,
                        !.board = r.board,
                        !.prev_action = PartialTurnPrevAction(operation)])

\* Mutant: every cell counts as reachable.
is_reachable_by_current_player_anywhere(s, which_coord) == TRUE

is_reachable_by_current_player(s, which_coord) ==
    which_coord \in reachable_destinations(s.board, current_player_state(s).location)

\* Mutant: the move is not logged, the previous action stays the shift.
move_current_player_not_logged(s, dest_coord) ==
    IF ~in_bounds(s.board, dest_coord) THEN Raise("IndexError", s)
    ELSE IF s.prev_action.kind # "PARTIAL_TURN" THEN Raise("TurnContractViolation", s)
    ELSE IF dest_coord = current_player_state(s).location THEN Raise("ZeroMovementError", s)
    ELSE IF ~is_reachable_by_current_player(s, dest_coord) THEN Raise("OffroadingError", s)
    ELSE Ok([s EXCEPT
               !.player_states[current_player_color(s)] =
                   with_location(s.player_states[current_player_color(s)], dest_coord)])

move_current_player(s, dest_coord) ==
    IF ~in_bounds(s.board, dest_coord) THEN Raise("IndexError", s)
    ELSE IF s.prev_action.kind # "PARTIAL_TURN" THEN Raise("TurnContractViolation", s)
    ELSE IF dest_coord = current_player_state(s).location THEN Raise("ZeroMovementError", s)
    ELSE IF ~is_reachable_by_current_player(s, dest_coord) THEN Raise("OffroadingError", s)
    ELSE Ok([s EXCEPT
               !.player_states[current_player_color(s)] =
                   with_location(s.player_states[current_player_color(s)], dest_coord),
               !.prev_action = complete(s.prev_action)])

\* Mutant: the shift that undoes the last one stays among the legal ones.
get_legal_shift_ops_keeps_reverse(s) ==
    IF s.prev_action.kind = "PARTIAL_TURN" THEN {}
    ELSE UNION {{ShiftOp(coord, direction) :
                    coord \in get_valid_insert_locations(s.board, direction)} :
                direction \in Direction}

get_legal_shift_ops(s) ==
    IF s.prev_action.kind = "PARTIAL_TURN" THEN {}
    ELSE LET legal_shift_ops ==
                 UNION {{ShiftOp(coord, direction) :
                            coord \in get_valid_insert_locations(s.board, direction)} :
                        direction \in Direction}
         IN  IF s.prev_action.kind # "EMPTY"
             THEN legal_shift_ops \ {reverse(s.prev_action.shift, s.board)}
             ELSE legal_shift_ops

\* Mutant: the current location is not discarded from the result.
get_legal_move_destinations_with_start(s) ==
    IF s.prev_action.kind # "PARTIAL_TURN" THEN {}
    ELSE reachable_destinations(s.board, current_player_state(s).location)

get_legal_move_destinations(s) ==
    IF s.prev_action.kind # "PARTIAL_TURN" THEN {}
    ELSE reachable_destinations(s.board, current_player_state(s).location)
             \ {current_player_state(s).location}

is_current_player_at_treasure(s) ==
    current_player_state(s).location = get_current_player_secret(s).treasure_location

is_current_player_at_home(s) ==
    current_player_state(s).location = current_player_state(s).home_location

\* Mutant: the turn ends without passing to the next player.
end_current_turn_same_player(s) == s

end_current_turn(s) ==
    LET new_player_index == s.current_player_index + 1
    IN  [s EXCEPT !.current_player_index =
            IF new_player_index >= Len(s.player_colors) THEN 0 ELSE new_player_index]

\* dict.copy() followed by pop(color), and the key order that remains
without_key(f, color) == [c \in (DOMAIN f) \ {color} |-> f[c]]

without_color(colors, color) == SelectSeq(colors, LAMBDA c : c # color)

index_of(colors, color) == (CHOOSE i \in 1..Len(colors) : colors[i] = color) - 1

\* Mutant: the index moves on as at the end of a turn, which skips a player.
eject_current_player_skips_next(s) ==
    IF num_players(s) = 1 THEN Raise("NoMorePlayersError", s)
    ELSE LET color == current_player_color(s)
             new_colors == without_color(s.player_colors, color)
         IN  Ok([s EXCEPT
                   !.player_colors = new_colors,
                   !.player_states = without_key(s.player_states, color),
                   !.player_secrets = without_key(s.player_secrets, color),
                   !.current_player_index =
                       IF s.current_player_index + 1 >= Len(new_colors) THEN 0
                       ELSE s.current_player_index + 1])

\* RefereeGameState.eject_current_player
eject_current_player(s) ==
    IF num_players(s) = 1 THEN Raise("NoMorePlayersError", s)
    ELSE LET color == current_player_color(s)
             new_colors == without_color(s.player_colors, color)
         IN  Ok([s EXCEPT
                   !.player_colors = new_colors,
                   !.player_states = without_key(s.player_states, color),
                   !.player_secrets = without_key(s.player_secrets, color),
                   !.current_player_index =
                       IF s.current_player_index >= Len(new_colors) THEN 0
                       ELSE s.current_player_index])

\* Mutant: the index stays when a player before the current one leaves.
eject_player_keeps_index(s, color) ==
    IF \A i \in 1..Len(s.player_colors) : s.player_colors[i] # color THEN Ok(s)
    ELSE IF num_players(s) = 1 THEN Raise("NoMorePlayersError", s)
    ELSE LET new_colors == without_color(s.player_colors, color)
         IN  Ok([s EXCEPT
                   !.player_colors = new_colors,
                   !.player_states = without_key(s.player_states, color),
                   !.player_secrets = without_key(s.player_secrets, color),
                   !.current_player_index =
                       IF s.current_player_index >= Len(new_colors) THEN 0
                       ELSE s.current_player_index])

\* Mutant: the secret of the player that leaves stays in the state.
eject_player_keeps_secret(s, color) ==
    IF \A i \in 1..Len(s.player_colors) : s.player_colors[i] # color THEN Ok(s)
    ELSE IF num_players(s) = 1 THEN Raise("NoMorePlayersError", s)
    ELSE LET new_colors == without_color(s.player_colors, color)
             ejected_player_index == index_of(s.player_colors, color)
         IN  Ok([s EXCEPT
                   !.player_colors = new_colors,
                   !.player_states = without_key(s.player_states, color),
                   !.current_player_index =
                       IF ejected_player_index < s.current_player_index
                       THEN s.current_player_index - 1
                       ELSE IF ejected_player_index = s.current_player_index
                               /\ s.current_player_index >= Len(new_colors)
                       THEN 0
                       ELSE s.current_player_index])

\* RefereeGameState.eject_player
eject_player(s, color) ==
    IF \A i \in 1..Len(s.player_colors) : s.player_colors[i] # color THEN Ok(s)
    ELSE IF num_players(s) = 1 THEN Raise("NoMorePlayersError", s)
    ELSE LET new_colors == without_color(s.player_colors, color)
             ejected_player_index == index_of(s.player_colors, color)
         IN  Ok([s EXCEPT
                   !.player_colors = new_colors,
                   !.player_states = without_key(s.player_states, color),
                   !.player_secrets = without_key(s.player_secrets, color),
                   !.current_player_index =
                       IF ejected_player_index < s.current_player_index
                       THEN s.current_player_index - 1
                       ELSE IF ejected_player_index = s.current_player_index
                               /\ s.current_player_index >= Len(new_colors)
                       THEN 0
                       ELSE s.current_player_index])

\* RefereeGameState: can_get_player_secret(color) is `color in player_secrets`.
set_current_player_new_goal(s, new_goal) ==
    LET player_color == current_player_color(s)
    IN  IF player_color \notin DOMAIN s.player_secrets \/ ~is_current_player_at_treasure(s)
        THEN s
        ELSE IF new_goal = s.player_states[player_color].home_location
        THEN [s EXCEPT !.player_secrets[player_color] =
                            set_is_going_home(s.player_secrets[player_color])]
        ELSE [s EXCEPT !.player_secrets[player_color] =
                            set_new_goal(s.player_secrets[player_color], new_goal)]

(***************************************************************************)
(* Fixtures: boards written row by row, as the tests write them.           *)
(***************************************************************************)
\* rows[r][c] = <<shape, rotation>>; the gem pair of cell (c, r) is its number.
board_from_rows(rows) ==
    LET height == Len(rows)
        width == Len(rows[1])
    IN  Board([c \in {Coord(x, y) : x \in 0..(width - 1), y \in 0..(height - 1)} |->
                  Tile(rows[c.row + 1][c.col + 1][1], rows[c.row + 1][c.col + 1][2],
                       c.row * width + c.col + 1)],
              width, height)

\* A ring of roads around a crossing that opens onto the top edge.
RingBoard ==
    board_from_rows(<<
        << <<"CORNER", 1>>, <<"TEE", 0>>,   <<"CORNER", 2>> >>,
        << <<"LINE", 0>>,   <<"CROSS", 0>>, <<"LINE", 0>>   >>,
        << <<"CORNER", 0>>, <<"LINE", 1>>,  <<"CORNER", 3>> >> >>)

RingSpare == Tile("LINE", 1, 0)

StatePlayers == <<"A", "B">>

StateInit(index) ==
    GameState(StatePlayers,
              [c \in {"A", "B"} |->
                  IF c = "A" THEN PlayerState(Coord(1, 1), Coord(1, 1))
                  ELSE PlayerState(Coord(1, 1), Coord(0, 0))],
              [c \in {"A", "B"} |->
                  IF c = "A" THEN PlayerSecret(Coord(1, 0), FALSE, 0)
                  ELSE PlayerSecret(Coord(2, 2), FALSE, 0)],
              RingSpare, RingBoard, EmptyPrevAction, index)

\* The names of the players of StateInit
StateNames == [c \in {"A", "B"} |-> IF c = "A" THEN "Zoe" ELSE "Xena"]

\* Bound on the number of accepted transitions of one exploration.
MaxSteps == 5

\* Arguments tried for rotate_spare_tile: multiples of 90 and one that is not.
RotateInputs == {0, 90, -90, 45}

\* Arguments tried for shift_tiles: the edge cells of the movable rows and columns
\* with every direction, a fixed cell and a cell off the board.
ShiftInputs ==
    {ShiftOp(c, d) : c \in {Coord(0, 0), Coord(2, 0), Coord(0, 2), Coord(1, 1), Coord(3, 0)},
                     d \in {"RIGHT", "LEFT", "DOWN"}}

\* Arguments tried for move_current_player: some cells, and one off the board.
MoveInputs == {Coord(1, 1), Coord(1, 0), Coord(0, 0), Coord(2, 2), Coord(0, 3)}

Idle == "idle"

RefereeIdle ==
    /\ pc = Idle /\ input = None /\ named = {} /\ state = None /\ state0 = None
    /\ goal_queue = <<>> /\ idx = 0 /\ setup_failed = <<>> /\ current_round = 0
    /\ round_size = 0 /\ any_player_moved = FALSE /\ calls = None /\ failed = None
    /\ lastCall = None /\ turn = None /\ round_log = None /\ goals_sent = <<>>
    /\ view = None
    /\ ending = None
    /\ win_failed = {}
    /\ run_outcome = None
    /\ outcome = None
    /\ observer = None

InitState ==
    /\ \E index \in 0..1 : gs = StateInit(index)
    /\ last = [op |-> "init", arg |-> None, err |-> "OK"]
    /\ steps = 0
    /\ undo_rejected = None
    /\ names = StateNames /\ mutated = {}
    /\ RefereeIdle
    /\ create = None
    /\ player_obj = None /\ strategy = None

\* One call of a transition method on gs: the receiver is replaced by the
\* returned state when the call returns, and kept when it raises.
Called(op, arg, r) ==
    /\ steps < MaxSteps
    /\ gs' = r.st
    /\ last' = [op |-> op, arg |-> arg, err |-> r.err]
    /\ steps' = IF r.err = "OK" THEN steps + 1 ELSE steps
    /\ undo_rejected' = IF r.err = "UndoNotAllowedError"
                            /\ arg = reverse(gs.prev_action.shift, gs.board)
                         THEN arg ELSE undo_rejected
    /\ UNCHANGED <<names, mutated, refVars, createVars, playerVars>>

Rotate == \E degrees \in RotateInputs :
    Called("rotate_spare_tile", degrees, rotate_spare_tile(gs, degrees))

Shift == \E operation \in ShiftInputs :
    Called("shift_tiles", operation, shift_tiles(gs, operation))

Move == \E dest_coord \in MoveInputs :
    Called("move_current_player", dest_coord, move_current_player(gs, dest_coord))

EndTurn == Called("end_current_turn", None, Ok(end_current_turn(gs)))

NextState == Rotate \/ Shift \/ Move \/ EndTurn

SpecState == InitState /\ [][NextState]_vars

(***************************************************************************)
(* Claims about the GameState transition methods (checked under SpecState) *)
(***************************************************************************)
IsCall(op) == last'.op = op /\ last'.err = "OK"

\* C1: an accepted shift_tiles(op) takes PrevAction from EMPTY or COMPLETE to
\* PARTIAL(op), an accepted move_current_player takes PARTIAL(op) to COMPLETE(op)
\* with the same op, and no other call changes PrevAction; in every state
\* get_legal_move_destinations() is empty unless PrevAction is PARTIAL and
\* get_legal_shift_ops() is empty whenever it is PARTIAL.
C1_TurnSequence ==
    /\ [](/\ (gs.prev_action.kind # "PARTIAL_TURN" => get_legal_move_destinations(gs) = {})
          /\ (gs.prev_action.kind = "PARTIAL_TURN" => get_legal_shift_ops(gs) = {}))
    /\ [][/\ IsCall("shift_tiles") =>
                /\ gs.prev_action.kind \in {"EMPTY", "COMPLETE_TURN"}
                /\ gs'.prev_action = PartialTurnPrevAction(last'.arg)
          /\ IsCall("move_current_player") =>
                /\ gs.prev_action.kind = "PARTIAL_TURN"
                /\ gs'.prev_action = CompleteTurnPrevAction(gs.prev_action.shift)
          /\ ~(IsCall("shift_tiles") \/ IsCall("move_current_player")) =>
                gs'.prev_action = gs.prev_action]_vars

\* A full turn has been played: the shift and then the move were accepted.
C1_Witness ==
    /\ last.op = "move_current_player" /\ last.err = "OK"
    /\ gs.prev_action.kind = "COMPLETE_TURN"
    /\ get_legal_shift_ops(gs) # {}

\* C2: with PrevAction COMPLETE(op), shift_tiles(op.reverse(board)) raises
\* UndoNotAllowedError whoever the current player is; and a shift that was
\* rejected so is accepted once the last complete turn is another shift than op.
C2_UndoOnlyNextShift ==
    /\ gs.prev_action.kind = "COMPLETE_TURN" =>
          \A index \in 0..(num_players(gs) - 1) :
              shift_tiles([gs EXCEPT !.current_player_index = index],
                          reverse(gs.prev_action.shift, gs.board)).err
                  = "UndoNotAllowedError"
    /\ (/\ undo_rejected # None
        /\ gs.prev_action.kind = "COMPLETE_TURN"
        /\ gs.prev_action.shift # reverse(undo_rejected, gs.board)) =>
          shift_tiles(gs, undo_rejected).err = "OK"

\* The shift that was rejected as an undo has now been accepted, after another turn.
C2_Witness ==
    /\ undo_rejected # None
    /\ last.op = "shift_tiles" /\ last.err = "OK" /\ last.arg = undo_rejected

\* C3: out-of-order calls raise TurnContractViolation and return no state:
\* shift_tiles (any argument) and rotate_spare_tile (multiple of 90) while
\* PARTIAL, move_current_player (in bounds) while EMPTY or COMPLETE; two
\* rotations in a row while not PARTIAL are both accepted.
C3_OutOfOrderCalls ==
    /\ gs.prev_action.kind = "PARTIAL_TURN" =>
          /\ \A operation \in ShiftInputs :
                shift_tiles(gs, operation) = Raise("TurnContractViolation", gs)
          /\ \A degrees \in {d \in RotateInputs : d % 90 = 0} :
                rotate_spare_tile(gs, degrees) = Raise("TurnContractViolation", gs)
    /\ gs.prev_action.kind # "PARTIAL_TURN" =>
          /\ \A dest_coord \in {c \in MoveInputs : in_bounds(gs.board, c)} :
                move_current_player(gs, dest_coord) = Raise("TurnContractViolation", gs)
          /\ \A d1, d2 \in {d \in RotateInputs : d % 90 = 0} :
                /\ rotate_spare_tile(gs, d1).err = "OK"
                /\ rotate_spare_tile(rotate_spare_tile(gs, d1).st, d2).err = "OK"

\* A rotation was attempted between a shift and its move, and was rejected.
C3_Witness ==
    /\ gs.prev_action.kind = "PARTIAL_TURN"
    /\ last.op = "rotate_spare_tile" /\ last.err = "TurnContractViolation"

(***************************************************************************)
(* Referee/referee.py: the pure parts of AsyncReferee.                     *)
(* A player is identified with its color (the key of player_map).  How a   *)
(* player answers a call is an input: "value" (it returned something),     *)
(* "none" (it returned without a value) or "raise" (it raised or timed     *)
(* out, which Timeout turns into an exception).                            *)
(***************************************************************************)
\* Rounds after which _run_game stops counting (1000 in the source).
MAX_ROUNDS == 2

CallResults == {"value", "none", "raise"}

\* The default None of the str argument player_trigger_color
NoColor == ""

GameOutcome(winners, ejected) == [winners |-> winners, ejected |-> ejected]

Range(seq) == {seq[i] : i \in 1..Len(seq)}

\* Mutant: progress is always measured to the treasure, also when going home.
order_by_game_progress_to_treasure(player_state, player_secret) ==
    <<player_secret.treasure_count,
      -squared_euclidean_distance(player_state.location, player_secret.treasure_location)>>

order_by_game_progress(player_state, player_secret) ==
    LET goal_location == IF player_secret.is_going_home THEN player_state.home_location
                         ELSE player_secret.treasure_location
    IN  <<player_secret.treasure_count,
          -squared_euclidean_distance(player_state.location, goal_location)>>

\* Python's order on the pairs, which max() uses
tuple_le(a, b) == a[1] < b[1] \/ (a[1] = b[1] /\ a[2] <= b[2])

_outcome_with_winners(winners, s, players) ==
    GameOutcome(winners, players \ Range(s.player_colors))

_check_winners(s, players, player_trigger_color) ==
    LET progress(color) ==
            order_by_game_progress(s.player_states[color], s.player_secrets[color])
        max_game_progress ==
            CHOOSE m \in {progress(c) : c \in Range(s.player_colors)} :
                \A c \in Range(s.player_colors) : tuple_le(progress(c), m)
        winners == SelectSeq(s.player_colors, LAMBDA c : progress(c) = max_game_progress)
    IN  IF Len(winners) > 1 /\ player_trigger_color # NoColor
           /\ player_trigger_color \in Range(winners)
        THEN _outcome_with_winners(<<player_trigger_color>>, s, players)
        ELSE _outcome_with_winners(winners, s, players)

\* RefereeGameState.can_get_player_secret
Referee_can_get_player_secret(s, color) == color \in DOMAIN s.player_secrets

\* RefereeGameState.get_player_secret: self.player_secrets[color]
Referee_get_player_secret(s, color) ==
    IF color \in DOMAIN s.player_secrets THEN Ok(s.player_secrets[color])
    ELSE Raise("KeyError", None)

\* RestrictedGameState.can_get_player_secret
Restricted_can_get_player_secret(s, color) == color = s.player_color

\* Mutant: the secret is looked up by the color asked for.
Restricted_get_player_secret_by_key(s, color) ==
    IF color \in DOMAIN s.player_secrets THEN Ok(s.player_secrets[color])
    ELSE Raise("KeyError", None)

\* RestrictedGameState.get_player_secret
Restricted_get_player_secret(s, color) ==
    IF ~Restricted_can_get_player_secret(s, color) THEN Raise("SecretAccessError", None)
    ELSE Ok(s.player_secrets[s.player_color])

\* RestrictedGameState.__init__ for arguments it accepts (one secret, of a
\* player of player_states): a GameState that knows its owner.
RestrictedGameState(player_colors, player_states, player_secrets, spare_tile, board, prev_action, index) ==
    [player_colors |-> player_colors, player_states |-> player_states,
     player_secrets |-> player_secrets, spare_tile |-> spare_tile, board |-> board,
     prev_action |-> prev_action, current_player_index |-> index,
     player_color |-> CHOOSE color \in DOMAIN player_secrets : TRUE]

\* Mutant: the view carries every player's secret.
_restrict_game_state_all_secrets(s, player_color) ==
    LET i == index_of(s.player_colors, player_color) + 1
        n == Len(s.player_colors)
    IN  [player_colors |-> <<player_color>> \o SubSeq(s.player_colors, i + 1, n)
                               \o SubSeq(s.player_colors, 1, i - 1),
         player_states |-> s.player_states, player_secrets |-> s.player_secrets,
         spare_tile |-> s.spare_tile, board |-> s.board, prev_action |-> s.prev_action,
         current_player_index |-> 0, player_color |-> player_color]

\* The view of s for the player of player_color: that player first, then the
\* players after it, then those before it; its secret only; index 0.
_restrict_game_state(s, player_color) ==
    LET i == index_of(s.player_colors, player_color) + 1
        n == Len(s.player_colors)
    IN  RestrictedGameState(
            <<player_color>> \o SubSeq(s.player_colors, i + 1, n)
                \o SubSeq(s.player_colors, 1, i - 1),
            s.player_states,
            [c \in {player_color} |-> Referee_get_player_secret(s, c).st],
            s.spare_tile, s.board, s.prev_action, 0)

\* True unless the call raised: the value returned by setup is discarded.
_request_player_setup(result) == result # "raise"

\* True unless the call raised: the value returned by win is discarded.
_request_player_win(result) == result # "raise"

\* What take_turn can give back: a pass, a move, or an exception.
TurnPass == [kind |-> "pass"]

TurnWithMove(degrees, shift, movement) ==
    [kind |-> "move", degrees |-> degrees, shift |-> shift, movement |-> movement]

TakeTurnRaises == [kind |-> "raise"]

\* What _run_player_turn returns (ejection or state, did_move), together with
\* its effects: the goal queue it leaves, the answer to the setup call it made
\* ("" if it made none), the goal passed to that call (None if it made none) and
\* the exception that caused the ejection.
TurnOutcome(ejection, st, did_move, queue, setup_result, err) ==
    [ejection |-> ejection, st |-> st, did_move |-> did_move, goal_queue |-> queue,
     setup_result |-> setup_result, err |-> err, new_goal |-> None]

\* Mutant: the goal is read from the queue and left in it.
_send_player_new_goal_keeps_entry(prev_state, s, queue, setup_result) ==
    IF get_current_player_secret(prev_state).is_going_home
    THEN TurnOutcome(FALSE, s, TRUE, queue, "", "OK")
    ELSE LET has_more_goals == Len(queue) > 0
             new_goal == IF has_more_goals THEN Head(queue)
                         ELSE current_player_state(s).home_location
             new_state == set_current_player_new_goal(s, new_goal)
         IN  IF ~_request_player_setup(setup_result)
             THEN [TurnOutcome(TRUE, prev_state, FALSE, queue, setup_result, "SetupFailed")
                      EXCEPT !.new_goal = new_goal]
             ELSE [TurnOutcome(FALSE, new_state, TRUE, queue, setup_result, "OK")
                      EXCEPT !.new_goal = new_goal]

_send_player_new_goal(prev_state, s, queue, setup_result) ==
    IF get_current_player_secret(prev_state).is_going_home
    THEN TurnOutcome(FALSE, s, TRUE, queue, "", "OK")
    ELSE LET has_more_goals == Len(queue) > 0
             new_goal == IF has_more_goals THEN Head(queue)
                         ELSE current_player_state(s).home_location
             new_queue == IF has_more_goals THEN Tail(queue) ELSE queue
             new_state == set_current_player_new_goal(s, new_goal)
         IN  IF ~_request_player_setup(setup_result)
             THEN [TurnOutcome(TRUE, prev_state, FALSE, new_queue, setup_result,
                               "SetupFailed") EXCEPT !.new_goal = new_goal]
             ELSE [TurnOutcome(FALSE, new_state, TRUE, new_queue, setup_result, "OK")
                      EXCEPT !.new_goal = new_goal]

\* Mutant: the move of the action is left out.
apply_turn_action_without_move(s, turn_action) ==
    LET rotated_state == rotate_spare_tile(s, turn_action.degrees)
    IN  IF rotated_state.err # "OK" THEN rotated_state
        ELSE shift_tiles(rotated_state.st, turn_action.shift)

\* state.rotate_spare_tile(degrees).shift_tiles(shift).move_current_player(movement)
apply_turn_action(s, turn_action) ==
    LET rotated_state == rotate_spare_tile(s, turn_action.degrees)
    IN  IF rotated_state.err # "OK" THEN rotated_state
        ELSE LET shifted_state == shift_tiles(rotated_state.st, turn_action.shift)
             IN  IF shifted_state.err # "OK" THEN shifted_state
                 ELSE move_current_player(shifted_state.st, turn_action.movement)

_run_player_turn(s, turn_action, queue, setup_result) ==
    IF turn_action.kind = "raise"
    THEN TurnOutcome(TRUE, s, FALSE, queue, "", "PlayerRaised")
    ELSE IF turn_action.kind = "pass"
    THEN TurnOutcome(FALSE, s, FALSE, queue, "", "OK")
    ELSE LET next_state == apply_turn_action(s, turn_action)
         IN  IF next_state.err # "OK"
             THEN TurnOutcome(TRUE, s, FALSE, queue, "", next_state.err)
             ELSE IF is_current_player_at_treasure(next_state.st)
             THEN _send_player_new_goal(s, next_state.st, queue, setup_result)
             ELSE TurnOutcome(FALSE, next_state.st, TRUE, queue, "", "OK")

_current_player_returned_home(s, prev_state) ==
    get_current_player_secret(prev_state).is_going_home /\ is_current_player_at_home(s)

\* Mutant: a round in which nobody moved does not end the game.
_run_round_never_final(moved) == FALSE

\* _run_round after its loop: final (winners by progress) if no player moved
_run_round_is_final(moved) == ~moved

\* Mutant: the loop of _run_game runs one round more.
_run_game_one_more_round(round) == round <= MAX_ROUNDS

\* The condition of the while loop of _run_game
_run_game_continues(round) == round < MAX_ROUNDS

\* for color in colors: state = state.eject_player(color)
RECURSIVE eject_players(_, _)
eject_players(s, colors) ==
    IF colors = <<>> THEN s
    ELSE eject_players(eject_player(s, Head(colors)).st, Tail(colors))

_eject_bad_players_from_map(player_map, s) ==
    eject_players(s, SelectSeq(s.player_colors, LAMBDA color : color \notin player_map))

\* The exception _validate_initial_game_state raises, "OK" if it returns.
_validate_initial_game_state(s, player_map, enforce_distinct_homes) ==
    IF Range(s.player_colors) # player_map THEN "KeyError"
    ELSE IF enforce_distinct_homes
            /\ Cardinality({s.player_states[c].home_location : c \in Range(s.player_colors)})
                   # Len(s.player_colors)
    THEN "ValueError"
    ELSE "OK"

\* Mutant: the players that failed setup stay in the state.
_configure_game_keeps_failed(state0_, ejected_player_colors, players) ==
    IF Len(ejected_player_colors) = Len(state0_.player_colors)
    THEN [final |-> TRUE, game_outcome |-> GameOutcome(<<>>, players), game_state |-> state0_]
    ELSE [final |-> FALSE, game_outcome |-> None, game_state |-> state0_]

\* _configure_game after its loop of setup calls: an outcome if every player
\* failed, otherwise state0 without the players that failed.
_configure_game(state0_, ejected_player_colors, players) ==
    IF Len(ejected_player_colors) = Len(state0_.player_colors)
    THEN [final |-> TRUE, game_outcome |-> GameOutcome(<<>>, players), game_state |-> state0_]
    ELSE [final |-> FALSE, game_outcome |-> None,
          game_state |-> eject_players(state0_, ejected_player_colors)]

\* Mutant: a winner whose win call failed stays a winner.
_notify_winners_keeps_winners(game_outcome, ejected_players) ==
    GameOutcome(game_outcome.winners, game_outcome.ejected \cup ejected_players)

\* _notify_winners after its loop of win calls
_notify_winners(game_outcome, ejected_players) ==
    GameOutcome(SelectSeq(game_outcome.winners, LAMBDA winner : winner \notin ejected_players),
                game_outcome.ejected \cup ejected_players)

(***************************************************************************)
(* Players/player.py: the reference Player.  A Player is the record of its *)
(* implementation object: the phase, and in GAMEPLAY the PlayerState and   *)
(* PlayerSecret it keeps, in SCORING whether it won.  A method is an       *)
(* operator that gives [err, st, value]: the exception or "OK", the Player *)
(* after the call and the value returned.                                  *)
(***************************************************************************)
ProtocolPhase == {"SETUP", "GAMEPLAY", "SCORING"}

NewPlayer == [phase |-> "SETUP", player_state |-> None, player_secret |-> None, won |-> None]

PlayerResult(err, p, value) == [err |-> err, st |-> p, value |-> value]

\* PlayerSetupImpl.setup: the first PlayerState of state0, and the goal as a
\* secret with nothing collected
PlayerSetupImpl_setup(state0_, goal) ==
    [player_state |-> state0_.player_states[state0_.player_colors[1]],
     player_secret |-> PlayerSecret(goal, FALSE, 0)]

\* Mutant: every goal is taken for a treasure, the home too.
PlayerGameplayImpl_setup_never_home(p, new_goal) ==
    [p EXCEPT !.player_secret = set_new_goal(@, new_goal)]

PlayerGameplayImpl_setup(p, new_goal) ==
    IF new_goal # p.player_state.home_location
    THEN [p EXCEPT !.player_secret = set_new_goal(@, new_goal)]
    ELSE [p EXCEPT !.player_secret = set_is_going_home(@)]

\* PlayerGameplayImpl.take_turn up to the call of the strategy: the state the
\* strategy is given, s with the Player's own secret for the current player
PlayerGameplayImpl_take_turn(p, s) ==
    RestrictedGameState(s.player_colors, s.player_states,
                        [c \in {current_player_color(s)} |-> p.player_secret],
                        s.spare_tile, s.board, s.prev_action, s.current_player_index)

\* The row-by-row index propose_board0 gives the tile of (col, row) in its
\* sample of rows * columns gem pairs
treasure_index(columns, col, row) == col * columns + row

\* PlayerSetupImpl.propose_board0, by how it ends: the tiles are random, the
\* gems are those at treasure_index of a sample of distinct pairs, and Board()
\* refuses tiles that share a pair.
PlayerSetupImpl_propose_board0(rows, columns) ==
    IF rows < 1 \/ columns < 1 THEN "ValueError"
    ELSE LET cells == {Coord(col, row) : col \in 0..(columns - 1), row \in 0..(rows - 1)}
         IN  IF \E c \in cells : treasure_index(columns, c.col, c.row) >= rows * columns
             THEN "IndexError"
             ELSE IF \E c, d \in cells :
                        c # d /\ treasure_index(columns, c.col, c.row)
                                    = treasure_index(columns, d.col, d.row)
             THEN "ValueError"
             ELSE "OK"

Player_propose_board0(p, rows, columns) ==
    IF p.phase # "SETUP" THEN PlayerResult("IncorrectPhaseError", p, None)
    ELSE PlayerResult(PlayerSetupImpl_propose_board0(rows, columns), p, None)

\* Mutant: setup(None, goal) is let through in every phase but SETUP.
Player_setup_after_scoring(p, state0_, goal) ==
    IF state0_ # None
    THEN IF p.phase # "SETUP" THEN PlayerResult("IncorrectPhaseError", p, None)
         ELSE LET first == PlayerSetupImpl_setup(state0_, goal)
              IN  PlayerResult("OK", [p EXCEPT !.phase = "GAMEPLAY",
                                               !.player_state = first.player_state,
                                               !.player_secret = first.player_secret],
                               first)
    ELSE IF p.phase = "SETUP" THEN PlayerResult("IncorrectPhaseError", p, None)
         ELSE IF p.phase = "SCORING" THEN PlayerResult("OK", p, goal)
         ELSE PlayerResult("OK", PlayerGameplayImpl_setup(p, goal), goal)

Player_setup(p, state0_, goal) ==
    IF state0_ # None
    THEN IF p.phase # "SETUP" THEN PlayerResult("IncorrectPhaseError", p, None)
         ELSE LET first == PlayerSetupImpl_setup(state0_, goal)
              IN  PlayerResult("OK", [p EXCEPT !.phase = "GAMEPLAY",
                                               !.player_state = first.player_state,
                                               !.player_secret = first.player_secret],
                               first)
    ELSE IF p.phase # "GAMEPLAY" THEN PlayerResult("IncorrectPhaseError", p, None)
         ELSE PlayerResult("OK", PlayerGameplayImpl_setup(p, goal), goal)

\* The value is the state the strategy is asked about.
Player_take_turn(p, s) ==
    IF p.phase # "GAMEPLAY" THEN PlayerResult("IncorrectPhaseError", p, None)
    ELSE PlayerResult("OK", p, PlayerGameplayImpl_take_turn(p, s))

Player_win(p, w) ==
    IF p.phase # "GAMEPLAY" THEN PlayerResult("IncorrectPhaseError", p, None)
    ELSE PlayerResult("OK", [phase |-> "SCORING", player_state |-> None,
                             player_secret |-> None, won |-> w], w)

(***************************************************************************)
(* Players/strategy.py: FirstViableMoveStrategy, RiemannStrategy and       *)
(* EuclidStrategy                                                          *)
(***************************************************************************)
\* Python's order of two tuples of integers of one length
RECURSIVE tuple_lt(_, _)
tuple_lt(a, b) ==
    IF a = <<>> THEN FALSE
    ELSE IF Head(a) # Head(b) THEN Head(a) < Head(b)
    ELSE tuple_lt(Tail(a), Tail(b))

order_shift_by_row_first(shift) ==
    <<IF is_horizontal(shift.direction) THEN 0 ELSE 1,
      IF is_horizontal(shift.direction)
      THEN shift.insert_location.row ELSE shift.insert_location.col,
      dy(shift.direction) + dx(shift.direction)>>

order_coords_by_row_column(coord) == <<coord.row, coord.col>>

\* sorted(legal_shifts, key=order_shift_by_row_first): the shifts are a set, and
\* two of them never have one key, so the order is the order of the keys.
RECURSIVE sorted_by_row_first(_)
sorted_by_row_first(shifts) ==
    IF shifts = {} THEN <<>>
    ELSE LET first == CHOOSE a \in shifts : \A b \in shifts \ {a} :
                          tuple_lt(order_shift_by_row_first(a), order_shift_by_row_first(b))
         IN  <<first>> \o sorted_by_row_first(shifts \ {first})

shift_exploration_order(s) == sorted_by_row_first(get_legal_shift_ops(s))

rotation_exploration_order == <<0, 270, 180, 90>>

\* Mutant: the cells in row-column order, the goal in its place among them.
Riemann_movement_exploration_order_row_column(s) == SetToSeq(BoardCoords(s.board))

\* RiemannStrategy.movement_exploration_order: the goal, then the other cells
\* row by row
Riemann_movement_exploration_order(s) ==
    LET has_treasure == get_current_player_secret(s).is_going_home
        goal_location == IF has_treasure THEN current_player_state(s).home_location
                         ELSE get_current_player_secret(s).treasure_location
    IN  <<goal_location>> \o SetToSeq(BoardCoords(s.board) \ {goal_location})

\* non_goal_coords.sort(key=(distance to the goal, row, column))
RECURSIVE sorted_by_distance(_, _)
sorted_by_distance(coords, goal_location) ==
    IF coords = {} THEN <<>>
    ELSE LET key(coord) == <<squared_euclidean_distance(goal_location, coord)>>
                               \o order_coords_by_row_column(coord)
             first == CHOOSE a \in coords : \A b \in coords \ {a} : tuple_lt(key(a), key(b))
         IN  <<first>> \o sorted_by_distance(coords \ {first}, goal_location)

\* EuclidStrategy.movement_exploration_order: the goal, then the other cells
\* from the closest to the goal to the farthest
Euclid_movement_exploration_order(s) ==
    LET has_treasure == get_current_player_secret(s).is_going_home
        goal_location == IF has_treasure THEN current_player_state(s).home_location
                         ELSE get_current_player_secret(s).treasure_location
    IN  <<goal_location>>
            \o sorted_by_distance(BoardCoords(s.board) \ {goal_location}, goal_location)

movement_exploration_order(which, s) ==
    IF which = "Riemann" THEN Riemann_movement_exploration_order(s)
    ELSE Euclid_movement_exploration_order(s)

\* shifted_state.get_legal_move_destinations(), or the exception of the shift
destinations_after_shift(shifted_state) ==
    IF shifted_state.err # "OK" THEN Raise(shifted_state.err, {})
    ELSE Ok(get_legal_move_destinations(shifted_state.st))

\* rotated_state.shift_tiles(shift).get_legal_move_destinations(), or the
\* exception of the rotation or of the shift
destinations_after_rotation(rotated_state, shift) ==
    IF rotated_state.err # "OK" THEN Raise(rotated_state.err, {})
    ELSE destinations_after_shift(shift_tiles(rotated_state.st, shift))

\* The loops of get_action from destination d on.  cache[k] is what
\* state.rotate_spare_tile(degrees).shift_tiles(shift).get_legal_move_destinations()
\* gives for pair k of a shift and a rotation; the two inner loops stop at the
\* first pair that raises or whose destinations hold dests[d].
RECURSIVE explore(_, _, _, _)
explore(cache, dests, pairs, d) ==
    IF d > Len(dests) THEN Ok(TurnPass)
    ELSE LET stops == {k \in DOMAIN pairs :
                          cache[k].err # "OK" \/ dests[d] \in cache[k].st}
             k == CHOOSE first \in stops : \A other \in stops : first <= other
         IN  IF stops = {} THEN explore(cache, dests, pairs, d + 1)
             ELSE IF cache[k].err # "OK" THEN Raise(cache[k].err, None)
             ELSE Ok(TurnWithMove(pairs[k].degrees, pairs[k].shift, dests[d]))

\* FirstViableMoveStrategy.get_action of the strategy named which
get_action(which, s) ==
    LET shifts == shift_exploration_order(s)
        rotations == rotation_exploration_order
        pairs == [k \in 1..(Len(shifts) * Len(rotations)) |->
                     [shift |-> shifts[((k - 1) \div Len(rotations)) + 1],
                      degrees |-> rotations[((k - 1) % Len(rotations)) + 1]]]
        cache == [k \in DOMAIN pairs |->
                     destinations_after_rotation(
                         rotate_spare_tile(s, pairs[k].degrees), pairs[k].shift)]
    IN  explore(cache, movement_exploration_order(which, s), pairs, 1)

(***************************************************************************)
(* Games given to start_game_from_state.  Three players with homes on the  *)
(* fixed tiles of a 7 by 3 board of vertical roads; each player can walk   *)
(* its own column only.                                                    *)
(***************************************************************************)
ColumnsBoard ==
    board_from_rows([r \in 1..3 |-> [c \in 1..7 |-> <<"LINE", 0>>]])

ColumnsSpare == Tile("LINE", 0, 0)

RefereePlayers == <<"A", "B", "C">>

HomeOf(color) ==
    IF color = "A" THEN Coord(1, 1) ELSE IF color = "B" THEN Coord(3, 1) ELSE Coord(5, 1)

RefereeState(locations, secrets) ==
    GameState(SelectSeq(RefereePlayers, LAMBDA c : c \in DOMAIN locations),
              [c \in DOMAIN locations |-> PlayerState(HomeOf(c), locations[c])],
              secrets, ColumnsSpare, ColumnsBoard, EmptyPrevAction, 0)

StartGame(s, queue) ==
    [state |-> s, players |-> s.player_colors, goal_queue |-> queue,
     enforce_distinct_homes |-> TRUE]

\* A game of two that starts: both at home, nothing collected, two goals
\* queued.
FreshGame ==
    StartGame(RefereeState([c \in {"A", "B"} |-> HomeOf(c)],
                           [c \in {"A", "B"} |->
                               IF c = "A" THEN PlayerSecret(Coord(1, 2), FALSE, 0)
                               ELSE PlayerSecret(Coord(3, 0), FALSE, 0)]),
              <<Coord(1, 0), Coord(3, 2)>>)

\* A game that resumes: everyone is going home from its last goal, A with one
\* goal collected, B and C with two.
ResumedAhead ==
    StartGame(RefereeState([c \in Range(RefereePlayers) |-> Coord(HomeOf(c).col, 2)],
                           [c \in Range(RefereePlayers) |->
                               PlayerSecret(Coord(HomeOf(c).col, 2), TRUE,
                                            IF c = "A" THEN 1 ELSE 2)]),
              <<>>)

\* A game that resumes: A is going home from its last goal; B's last goal was
\* its own home, where it stands; C has collected nothing yet.
ResumedTied ==
    StartGame(RefereeState([c \in Range(RefereePlayers) |->
                               IF c = "B" THEN HomeOf(c) ELSE Coord(HomeOf(c).col, 2)],
                           [c \in Range(RefereePlayers) |->
                               IF c = "A" THEN PlayerSecret(Coord(1, 2), TRUE, 1)
                               ELSE IF c = "B" THEN PlayerSecret(Coord(3, 1), TRUE, 1)
                               ELSE PlayerSecret(Coord(5, 0), FALSE, 0)]),
              <<>>)

\* The same game, resumed at C's turn.
ResumedAtLast ==
    [ResumedTied EXCEPT !.state.current_player_index = 2]

Scenarios == {FreshGame, ResumedAhead, ResumedTied, ResumedAtLast}

\* Answers to take_turn: a pass, an exception, a legal rotation and shift of
\* the free column 0 with destinations in every player's column and one off the
\* board, a rotation that is no multiple of 90, a shift of a fixed column, and
\* the shift that undoes the legal one.
MoveTargets == {Coord(c, r) : c \in {1, 3, 5}, r \in 0..2} \cup {Coord(7, 0)}

TurnActions ==
    {TurnPass, TakeTurnRaises,
     TurnWithMove(45, ShiftOp(Coord(0, 0), "DOWN"), Coord(1, 1)),
     TurnWithMove(0, ShiftOp(Coord(1, 0), "DOWN"), Coord(1, 1)),
     TurnWithMove(0, ShiftOp(Coord(0, 2), "UP"), Coord(7, 0))}
        \cup {TurnWithMove(90, ShiftOp(Coord(0, 0), "DOWN"), m) : m \in MoveTargets}

\* The answers to the setup call of a turn, given the turn as it goes when that
\* call returns a value: only that one if the turn makes no such call.
SetupResults(turn_outcome) ==
    IF turn_outcome.setup_result = "" THEN {"value"} ELSE CallResults

(***************************************************************************)
(* AsyncReferee.start_game_from_state as a state machine: one step per     *)
(* phase of player calls (names), per setup call, per turn and per win     *)
(* call.                                                                   *)
(***************************************************************************)
NoCalls == [name |-> 0, setup |-> 0, take_turn |-> 0, new_goal |-> 0, win |-> 0]

\* Referee/observer.py: an Observer, by what it has received: the number of
\* receive_state calls, the state of the last one (the model keeps all of it
\* but the tiles of its board), the number of game_over calls, and whether a
\* receive_state came after a game_over.
NewObserver == [received |-> 0, last_state |-> None, game_overs |-> 0, late |-> FALSE]

\* What the model keeps of a state an observer receives
Shown(s) == [s EXCEPT !.board.tiles = None]

\* Mutant: nothing is sent to the observers.
_broadcast_state_to_nobody(obs, s) == obs

\* _broadcast_state_to_observers, for one observer
_broadcast_state_to_observers(obs, s) ==
    [obs EXCEPT !.received = @ + 1, !.last_state = Shown(s),
                !.late = @ \/ obs.game_overs > 0]

\* _broadcast_game_over_to_observers, and the same loop at the end of
\* _configure_game and of _notify_winners, for one observer
_broadcast_game_over_to_observers(obs) == [obs EXCEPT !.game_overs = @ + 1]

Init ==
    /\ gs = None /\ last = None /\ steps = 0 /\ undo_rejected = None /\ create = None
    /\ names = None /\ mutated = {}
    /\ \E scenario \in Scenarios : input = scenario
    /\ pc = "names"
    /\ named = {}
    /\ state = input.state
    /\ state0 = None
    /\ goal_queue = input.goal_queue
    /\ idx = 0
    /\ setup_failed = <<>>
    /\ current_round = 0
    /\ round_size = 0
    /\ any_player_moved = FALSE
    /\ calls = [p \in Range(input.players) |-> NoCalls]
    /\ failed = [p \in Range(input.players) |-> ""]
    /\ lastCall = [to |-> NoColor, method |-> "", result |-> ""]
    /\ turn = [player |-> NoColor, kind |-> "", err |-> ""]
    /\ round_log = [start |-> <<>>, turns |-> <<>>]
    /\ goals_sent = <<>>
    /\ view = None
    /\ ending = [by |-> "", trigger |-> NoColor]
    /\ win_failed = {}
    /\ run_outcome = None
    /\ outcome = None
    /\ observer = NewObserver
    /\ player_obj = None /\ strategy = None

\* _construct_player_map, _create_player_color_map, _eject_bad_players_from_map
\* and _validate_initial_game_state: every player is asked its name; those that
\* fail leave the state.
ConstructPlayerMap ==
    /\ pc = "names"
    /\ \E player_map \in SUBSET Range(input.players) :
          LET last_player == input.players[Len(input.players)]
              s == _eject_bad_players_from_map(player_map, state)
          IN  /\ named' = player_map
              /\ calls' = [p \in DOMAIN calls |-> [calls[p] EXCEPT !.name = @ + 1]]
              /\ failed' = [p \in DOMAIN failed |-> IF p \in player_map THEN "" ELSE "name"]
              /\ lastCall' = [to |-> last_player, method |-> "name",
                              result |-> IF last_player \in player_map THEN "value"
                                         ELSE "raise"]
              /\ IF player_map = {}
                 THEN /\ pc' = "done"
                      /\ ending' = [by |-> "names", trigger |-> NoColor]
                      /\ outcome' = GameOutcome(<<>>, Range(input.players))
                      /\ observer' = _broadcast_game_over_to_observers(observer)
                      /\ state' = state
                 ELSE /\ pc' = IF _validate_initial_game_state(
                                      s, player_map, input.enforce_distinct_homes) = "OK"
                               THEN "setup" ELSE "raised"
                      /\ ending' = ending
                      /\ outcome' = outcome
                      /\ observer' = observer
                      /\ state' = s
    /\ UNCHANGED <<input, state0, goal_queue, idx, setup_failed, current_round, round_size,
                   any_player_moved, turn, view, round_log, goals_sent, win_failed,
                   run_outcome>>
    /\ UNCHANGED <<stateVars, createVars, playerVars>>

\* One iteration of the loop of _configure_game; the last one also runs the
\* rest of _configure_game and enters _run_game and its first _run_round.
Setup ==
    /\ pc = "setup"
    /\ \E result \in CallResults :
          LET color == state.player_colors[idx + 1]
              ok == _request_player_setup(result)
              ejected_player_colors == IF ok THEN setup_failed
                                       ELSE Append(setup_failed, color)
              configured == _configure_game(state, ejected_player_colors, named)
          IN  /\ calls' = [calls EXCEPT ![color].setup = @ + 1]
              /\ failed' = IF ok THEN failed ELSE [failed EXCEPT ![color] = "setup"]
              /\ lastCall' = [to |-> color, method |-> "setup", result |-> result]
              /\ setup_failed' = ejected_player_colors
              /\ IF idx + 1 < Len(state.player_colors)
                 THEN /\ idx' = idx + 1
                      /\ UNCHANGED <<pc, state, state0, round_size, ending, run_outcome,
                                     outcome, observer>>
                 ELSE IF configured.final
                 THEN /\ pc' = "done"
                      /\ idx' = 0
                      /\ ending' = [by |-> "setup", trigger |-> NoColor]
                      /\ run_outcome' = configured.game_outcome
                      /\ outcome' = configured.game_outcome
                      /\ observer' = _broadcast_game_over_to_observers(observer)
                      /\ UNCHANGED <<state, state0, round_size>>
                 ELSE /\ pc' = "play"
                      /\ idx' = 0
                      /\ state' = configured.game_state
                      /\ state0' = configured.game_state
                      /\ round_size' = num_players(configured.game_state)
                      /\ observer' = _broadcast_state_to_observers(
                                         observer, configured.game_state)
                      /\ UNCHANGED <<ending, run_outcome, outcome>>
    /\ UNCHANGED <<input, named, goal_queue, current_round, any_player_moved, turn,
                   round_log, goals_sent, win_failed>>
    /\ view' = _restrict_game_state(state, state.player_colors[idx + 1])
    /\ UNCHANGED <<stateVars, createVars, playerVars>>

\* The players of s in turn order, the current one first
TurnOrder(s) ==
    [i \in 1..Len(s.player_colors) |->
        s.player_colors[((s.current_player_index + i - 1) % Len(s.player_colors)) + 1]]

\* The record of the rounds (history, read by no action): the first turn of a
\* call of _run_round opens a new record with the turn order of begin_state.
LogTurn(log, s, first_of_round, player_color, kind) ==
    LET open == IF first_of_round THEN [start |-> TurnOrder(s), turns |-> <<>>] ELSE log
    IN  [open EXCEPT !.turns = Append(@, [player |-> player_color, kind |-> kind])]

\* One iteration of the loop of _run_round: the current player's turn, then
\* whatever _run_round and _run_game do until the next player call.  (r is the
\* value _run_player_turn returns; \E over a singleton names it.)
TakeTurn ==
    /\ pc = "play"
    /\ \E turn_action \in TurnActions :
       \E r0 \in {_run_player_turn(state, turn_action, goal_queue, "value")} :
       \E setup_result \in SetupResults(r0) :
       \E r \in {IF setup_result = "value" THEN r0
                 ELSE _run_player_turn(state, turn_action, goal_queue, setup_result)} :
       \E ejected_state \in {eject_current_player(state)} :
          LET player_color == current_player_color(state)
              no_more_players == r.ejection /\ ejected_state.err = "NoMorePlayersError"
              returned_home == ~r.ejection /\ _current_player_returned_home(r.st, state)
              next_state == IF r.ejection THEN ejected_state.st
                            ELSE IF returned_home THEN r.st
                            ELSE end_current_turn(r.st)
              moved == any_player_moved \/ (~r.ejection /\ r.did_move)
              round_over == idx + 1 = round_size
              how == IF no_more_players THEN "no_players"
                     ELSE IF returned_home THEN "home"
                     ELSE IF round_over /\ _run_round_is_final(moved) THEN "no_move"
                     ELSE IF round_over /\ ~_run_game_continues(current_round + 1)
                     THEN "limit"
                     ELSE ""
          IN  /\ calls' = [calls EXCEPT
                              ![player_color].take_turn = @ + 1,
                              ![player_color].new_goal =
                                  IF r.setup_result = "" THEN @ ELSE @ + 1]
              /\ failed' = IF ~r.ejection THEN failed
                           ELSE [failed EXCEPT ![player_color] =
                                    IF r.setup_result = "" THEN "take_turn" ELSE "new_goal"]
              /\ lastCall' = IF r.setup_result = ""
                             THEN [to |-> player_color, method |-> "take_turn",
                                   result |-> turn_action.kind]
                             ELSE [to |-> player_color, method |-> "new_goal",
                                   result |-> r.setup_result]
              /\ turn' = [player |-> player_color,
                          kind |-> IF r.ejection THEN "ejected" ELSE turn_action.kind,
                          err |-> r.err]
              /\ round_log' = LogTurn(round_log, state, idx = 0, player_color,
                                      IF r.ejection THEN "ejected" ELSE turn_action.kind)
              /\ view' = _restrict_game_state(state, player_color)
              /\ goal_queue' = r.goal_queue
              /\ goals_sent' = IF r.setup_result = "" THEN goals_sent
                                ELSE Append(goals_sent, [player |-> player_color,
                                                         goal |-> r.new_goal])
              /\ state' = next_state
              /\ observer' = IF no_more_players THEN observer
                              ELSE _broadcast_state_to_observers(observer, next_state)
              /\ IF how # ""
                 THEN /\ pc' = "win"
                      /\ idx' = 0
                      /\ ending' = [by |-> how,
                                    trigger |-> IF how = "home" THEN player_color
                                                ELSE NoColor]
                      /\ run_outcome' =
                            IF how = "no_players" THEN GameOutcome(<<>>, named)
                            ELSE _check_winners(next_state, named,
                                                IF how = "home" THEN player_color
                                                ELSE NoColor)
                      /\ any_player_moved' = moved
                      /\ UNCHANGED <<current_round, round_size>>
                 ELSE IF round_over
                 THEN /\ current_round' = current_round + 1
                      /\ round_size' = num_players(next_state)
                      /\ idx' = 0
                      /\ any_player_moved' = FALSE
                      /\ UNCHANGED <<pc, ending, run_outcome>>
                 ELSE /\ idx' = idx + 1
                      /\ any_player_moved' = moved
                      /\ UNCHANGED <<pc, ending, run_outcome, current_round, round_size>>
    /\ UNCHANGED <<input, named, state0, setup_failed, win_failed, outcome>>
    /\ UNCHANGED <<stateVars, createVars, playerVars>>

\* One iteration of the loop of _notify_winners, over the players of the state
\* start_game_from_state passes to it; the last one also builds the outcome.
Win ==
    /\ pc = "win"
    /\ \E result \in CallResults :
          LET name == state0.player_colors[idx + 1]
              graceful_win == _request_player_win(result)
              ejected_players == IF graceful_win THEN win_failed
                                 ELSE win_failed \cup {name}
          IN  /\ calls' = [calls EXCEPT ![name].win = @ + 1]
              /\ failed' = IF graceful_win \/ failed[name] # "" THEN failed
                           ELSE [failed EXCEPT ![name] = "win"]
              /\ lastCall' = [to |-> name, method |-> "win", result |-> result]
              /\ win_failed' = ejected_players
              /\ IF idx + 1 < Len(state0.player_colors)
                 THEN /\ idx' = idx + 1
                      /\ UNCHANGED <<pc, outcome, observer>>
                 ELSE /\ idx' = 0
                      /\ pc' = "done"
                      /\ observer' = _broadcast_game_over_to_observers(observer)
                      /\ outcome' = _notify_winners(run_outcome, ejected_players)
    /\ UNCHANGED <<input, named, state, state0, goal_queue, setup_failed, current_round,
                   round_size, any_player_moved, turn, view, round_log, goals_sent,
                   ending, run_outcome>>
    /\ UNCHANGED <<stateVars, createVars, playerVars>>

Next == ConstructPlayerMap \/ Setup \/ TakeTurn \/ Win

Spec == Init /\ [][Next]_vars

\* Every player call returns or fails (Timeout turns a call that hangs into an
\* exception), so the referee always takes its next step.
FairSpec == Spec /\ WF_vars(Next)

(***************************************************************************)
(* Claims about the referee (checked under Spec)                           *)
(***************************************************************************)
\* The failures that eject a player from the game
EjectingCalls == {"name", "setup", "take_turn", "new_goal"}

\* C4: when take_turn raises or the returned action fails at the rotation, the
\* shift or the move, and the player is not the last one, the referee's next
\* state is the pre-turn state without that player and its secret: same board,
\* spare tile and PrevAction, same state and secret for everyone else, same
\* order; the next player in turn order is current; and take_turn is only ever
\* called on the current player of the referee's state.
C4_EjectionKeepsPreTurnState ==
    /\ [][(pc = "play" /\ turn'.kind = "ejected" /\ turn'.err # "SetupFailed"
             /\ num_players(state) > 1) =>
            LET p == current_player_color(state)
                i == state.current_player_index + 1
                next == state.player_colors[IF i = Len(state.player_colors) THEN 1
                                            ELSE i + 1]
                others == Range(state.player_colors) \ {p}
            IN  /\ state'.board = state.board
                /\ state'.spare_tile = state.spare_tile
                /\ state'.prev_action = state.prev_action
                /\ state'.player_colors = SelectSeq(state.player_colors, LAMBDA c : c # p)
                /\ DOMAIN state'.player_states = others
                /\ DOMAIN state'.player_secrets = others
                /\ \A q \in others :
                      /\ state'.player_states[q] = state.player_states[q]
                      /\ state'.player_secrets[q] = state.player_secrets[q]
                /\ current_player_color(state') = next]_vars
    /\ [][pc = "play" =>
            \A q \in DOMAIN calls :
                calls'[q].take_turn =
                    calls[q].take_turn + (IF q = current_player_color(state) THEN 1 ELSE 0)]_vars

\* An action was refused at the move, after its rotation and shift had been
\* accepted; the player is gone and the game goes on.
C4_Witness ==
    /\ pc = "play"
    /\ turn.kind = "ejected" /\ turn.err = "OffroadingError"
    /\ turn.player \notin Range(state.player_colors)

\* C5: a player receives setup(state, goal) at most once and before any
\* take_turn; take_turn and setup(None, goal) go only to a player that received
\* that setup and has not failed any call, and setup(None, goal) only in a turn
\* whose take_turn did not fail; once a player has failed a name, setup,
\* take_turn or setup(None, goal) call it receives none of these again.
C5_CallOrder ==
    /\ [](\A p \in DOMAIN calls : calls[p].setup <= 1)
    /\ [][\A p \in DOMAIN calls :
            /\ calls'[p].setup > calls[p].setup =>
                  calls[p].setup = 0 /\ calls[p].take_turn = 0 /\ calls[p].new_goal = 0
            /\ (calls'[p].take_turn > calls[p].take_turn
                   \/ calls'[p].new_goal > calls[p].new_goal) =>
                  calls[p].setup = 1 /\ failed[p] = ""
            /\ calls'[p].new_goal > calls[p].new_goal =>
                  /\ calls'[p].take_turn > calls[p].take_turn
                  /\ turn'.err \in {"OK", "SetupFailed"}
            /\ failed[p] \in EjectingCalls =>
                  /\ calls'[p].setup = calls[p].setup
                  /\ calls'[p].take_turn = calls[p].take_turn
                  /\ calls'[p].new_goal = calls[p].new_goal]_vars

\* A game is over in which one player failed its first setup and never got a
\* turn, one was ejected in its turn, and one was sent a new goal.
C5_Witness ==
    /\ pc = "done"
    /\ \E p \in DOMAIN calls : failed[p] = "setup" /\ calls[p].take_turn = 0
    /\ \E p \in DOMAIN calls : failed[p] = "take_turn" /\ calls[p].take_turn >= 1
    /\ \E p \in DOMAIN calls : calls[p].new_goal >= 1

\* C6: win is called at most once on a player, never on a player that was
\* ejected (for its name, its setup, a turn or a new goal), and exactly once on
\* every player that was not, once the game has been scored.
C6_WinOnlyToSurvivors ==
    \A p \in DOMAIN calls :
        /\ calls[p].win <= 1
        /\ calls[p].win > 0 => failed[p] \notin EjectingCalls
        /\ (pc = "done" /\ failed[p] \notin EjectingCalls) => calls[p].win = 1

\* C7: a setup or win call that returns without a value is treated as a call
\* that raised: after such a first setup the player is on the list of players
\* to eject, after such a setup(None, goal) the turn ends in an ejection, after
\* such a win the player is on the list of players moved to ejected.
C7_NoReturnIsFailure ==
    lastCall.result = "none" =>
        /\ lastCall.method = "setup" => lastCall.to \in Range(setup_failed)
        /\ lastCall.method = "new_goal" => turn.kind = "ejected"
        /\ lastCall.method = "win" => lastCall.to \in win_failed

\* The squared distance of a surviving player to its active goal
GoalDistance(c) ==
    LET ps == state.player_states[c]
        goal == IF state.player_secrets[c].is_going_home THEN ps.home_location
                ELSE state.player_secrets[c].treasure_location
    IN  (ps.location.col - goal.col) * (ps.location.col - goal.col)
            + (ps.location.row - goal.row) * (ps.location.row - goal.row)

\* c has made at least as much progress as d: more goals, or as many and no farther
AtLeast(c, d) ==
    \/ state.player_secrets[c].treasure_count > state.player_secrets[d].treasure_count
    \/ /\ state.player_secrets[c].treasure_count = state.player_secrets[d].treasure_count
       /\ GoalDistance(c) <= GoalDistance(d)

\* The surviving players that no survivor beats
Best == {c \in Range(state.player_colors) :
            \A d \in Range(state.player_colors) : AtLeast(c, d)}

\* C8: when the game ends by a round without a move or by the round limit, the
\* winners are exactly the surviving players with maximal (treasure_count,
\* -squared distance to the active goal), each listed once; when it ends by
\* player P's arrival at home and P is among those, P alone is the winner.
C8_WinnersByProgress ==
    pc \in {"win", "done"} =>
        /\ ending.by \in {"no_move", "limit"} =>
              /\ Range(run_outcome.winners) = Best
              /\ Len(run_outcome.winners) = Cardinality(Best)
        /\ (ending.by = "home" /\ ending.trigger \in Best) =>
              run_outcome.winners = <<ending.trigger>>

\* The game ended by a home arrival of a player tied for the best progress with
\* another one.
C8_Witness ==
    /\ pc = "done"
    /\ ending.by = "home" /\ ending.trigger \in Best /\ Cardinality(Best) > 1
    /\ run_outcome.winners = <<ending.trigger>>

\* C9: when the game ends because a player moved onto its home with
\* is_going_home already set, the outcome computed for that ending has exactly
\* one winner.
C9_HomeArrivalHasOneWinner ==
    (pc \in {"win", "done"} /\ ending.by = "home" /\ turn.kind = "move") =>
        Len(run_outcome.winners) = 1

\* C10: in the outcome start_game_from_state returns, no player is both a
\* winner and ejected; a player that failed its first setup, a turn or a new
\* goal is ejected and no winner; a player whose win call failed is ejected
\* and no winner.
C10_WinnersAndEjectedDisjoint ==
    pc = "done" =>
        /\ Range(outcome.winners) \cap outcome.ejected = {}
        /\ \A p \in DOMAIN failed :
              failed[p] \in {"setup", "take_turn", "new_goal", "win"} =>
                  p \in outcome.ejected /\ p \notin Range(outcome.winners)

\* A game is over in which a player computed as a winner failed its win call,
\* another player had been ejected in play, and a winner is left.
C10_Witness ==
    /\ pc = "done" /\ ending.by \in {"home", "no_move", "limit"}
    /\ \E p \in Range(run_outcome.winners) : failed[p] = "win"
    /\ \E p \in DOMAIN failed : failed[p] = "take_turn"
    /\ outcome.winners # <<>>

\* C17: the goals sent with setup(None, goal) are, in the order of the calls,
\* the entries of the goal queue the game started with, each once, and after
\* them the home of the player called; the referee's queue is what is left of
\* it.  A turn sends one goal, to its player, exactly when that player was not
\* going home and its move ended on its treasure location (also when the call
\* then fails), and nothing else sends a goal or changes the queue.
C17_GoalQueuePoppedOncePerArrival ==
    /\ [](LET n == Len(input.goal_queue)
              sent == Len(goals_sent)
          IN  /\ \A i \in 1..sent :
                    goals_sent[i].goal =
                        IF i <= n THEN input.goal_queue[i]
                        ELSE input.state.player_states[goals_sent[i].player].home_location
              /\ goal_queue = SubSeq(input.goal_queue, (IF sent < n THEN sent ELSE n) + 1, n))
    /\ [][pc = "play" =>
            LET p == current_player_color(state)
                secret == state.player_secrets[p]
                arrived ==
                    /\ ~secret.is_going_home
                    /\ \/ turn'.err = "SetupFailed"
                       \/ /\ turn'.kind = "move"
                          /\ state'.player_states[p].location = secret.treasure_location
            IN  /\ Len(goals_sent') = Len(goals_sent) + (IF arrived THEN 1 ELSE 0)
                /\ SubSeq(goals_sent', 1, Len(goals_sent)) = goals_sent
                /\ arrived => /\ goals_sent'[Len(goals_sent')].player = p
                              /\ lastCall'.to = p /\ lastCall'.method = "new_goal"
                /\ \A q \in DOMAIN calls :
                      calls'[q].new_goal = calls[q].new_goal
                          + (IF arrived /\ q = p THEN 1 ELSE 0)]_vars
    /\ [][pc # "play" => (goals_sent' = goals_sent /\ goal_queue' = goal_queue)]_vars

\* Both queued goals went out, to two players, the first in a call that failed,
\* and a third player was then sent its home.
C17_Witness ==
    /\ pc = "done" /\ Len(input.goal_queue) = 2 /\ Len(goals_sent) = 3
    /\ goals_sent[1].player # goals_sent[2].player
    /\ failed[goals_sent[1].player] = "new_goal"
    /\ goals_sent[3].goal = input.state.player_states[goals_sent[3].player].home_location
    /\ goal_queue = <<>>

\* Secrets another player could have instead of its own
OtherSecrets == {PlayerSecret(Coord(1, 2), FALSE, 0), PlayerSecret(Coord(3, 0), TRUE, 2)}

\* The referee states that differ from s at most in the secrets of players other than p
SameButOtherSecrets(s, p) ==
    {[s EXCEPT !.player_secrets = secrets] :
        secrets \in {f \in [DOMAIN s.player_secrets -> OtherSecrets \cup {s.player_secrets[p]}] :
                        f[p] = s.player_secrets[p]}} \cup {s}

\* C18: the view passed to player P in setup(state, goal) and in take_turn has
\* the board, spare tile, PrevAction and player states of the referee's state;
\* P is its first and its current player and the others follow in the
\* referee's order, those after P before those before P; it carries P's secret
\* and no other; and the view of every referee state that differs only in the
\* other players' secrets is the same view.
C18_ViewShowsOwnSecretOnly ==
    [][(pc = "setup" \/ pc = "play") =>
        LET P == IF pc = "setup" THEN lastCall'.to ELSE turn'.player
            i == index_of(state.player_colors, P) + 1
            n == Len(state.player_colors)
        IN  /\ P \in Range(state.player_colors)
            /\ view'.board = state.board
            /\ view'.spare_tile = state.spare_tile
            /\ view'.prev_action = state.prev_action
            /\ view'.player_states = state.player_states
            /\ Len(view'.player_colors) = n
            /\ view'.player_colors[1] = P
            /\ current_player_color(view') = P
            /\ \A k \in 1..(n - 1) :
                  view'.player_colors[k + 1] = state.player_colors[((i + k - 1) % n) + 1]
            /\ DOMAIN view'.player_secrets = {P}
            /\ view'.player_secrets[P] = state.player_secrets[P]
            /\ view'.player_color = P
            /\ \A other \in SameButOtherSecrets(state, P) :
                  _restrict_game_state(other, P) = view']_vars

\* The second of three players took its turn on a view in which it is first,
\* the third player second and the first player last, while another player was
\* going home.
C18_Witness ==
    /\ pc = "play" /\ view # None /\ turn.player = view.player_color
    /\ Len(view.player_colors) = 3
    /\ view.player_colors[1] = state.player_colors[2]
    /\ view.player_colors[2] = state.player_colors[3]
    /\ view.player_colors[3] = state.player_colors[1]
    /\ \E c \in Range(state.player_colors) \ {view.player_color} :
          state.player_secrets[c].is_going_home

\* Colors asked for: the players of the game and a color of no player
ProbeColors == Range(RefereePlayers) \cup {"Z"}

NoMoveRound ==
    /\ round_log.start # <<>>
    /\ Len(round_log.turns) = Len(round_log.start)
    /\ \A i \in 1..Len(round_log.turns) : round_log.turns[i].kind # "move"
    /\ \E i \in 1..Len(round_log.turns) : round_log.turns[i].kind # "ejected"

C12_TerminatesWithinRoundLimit ==
    /\ <>(pc \in {"done", "raised"})
    /\ [](\A p \in DOMAIN calls : calls[p].take_turn <= MAX_ROUNDS)
    /\ []((pc \in {"win", "done"} /\ ending.by = "limit") =>
            /\ \A p \in Range(state.player_colors) : calls[p].take_turn = MAX_ROUNDS
            /\ \E i \in 1..Len(round_log.turns) : round_log.turns[i].kind = "move"
            /\ Range(run_outcome.winners) = Best
            /\ Len(run_outcome.winners) = Cardinality(Best))

\* The game was stopped by the round limit and has been scored.
C12_Witness ==
    /\ pc = "done" /\ ending.by = "limit"
    /\ \E p \in Range(state.player_colors) : calls[p].take_turn = MAX_ROUNDS
    /\ outcome.winners # <<>>

\* C13: in every round, the turns taken so far went, one each and in order, to
\* the first players of the turn order the round started with, whoever was
\* ejected meanwhile; every take_turn call is a turn of the round's record; and
\* a new round starts only after every player of the previous round's start
\* had its turn.
C13_OneTurnEachPerRound ==
    /\ [](/\ Len(round_log.turns) <= Len(round_log.start)
          /\ \A i \in 1..Len(round_log.turns) :
                round_log.turns[i].player = round_log.start[i])
    /\ [][pc = "play" =>
            LET n == Len(round_log'.turns)
                new_round == round_log'.start # round_log.start \/ n = 1
            IN  /\ n = IF new_round THEN 1 ELSE Len(round_log.turns) + 1
                /\ new_round => Len(round_log.turns) = Len(round_log.start)
                /\ \A p \in DOMAIN calls :
                      calls'[p].take_turn = calls[p].take_turn
                          + (IF p = round_log'.turns[n].player THEN 1 ELSE 0)]_vars

\* A round of three players that did not start at the first player of the
\* state ran to its end although its first and its second player were ejected.
C13_Witness ==
    /\ Len(round_log.start) = 3 /\ Len(round_log.turns) = 3
    /\ round_log.start[1] # state0.player_colors[1]
    /\ round_log.turns[1].kind = "ejected" /\ round_log.turns[2].kind = "ejected"
    /\ round_log.turns[3].kind = "move"
    /\ current_round = 1

\* C14: when the game is over because no player is left (all names failed, all
\* first setups failed, or the last player was ejected in play), the outcome
\* has no winners and every player handed to start_game_from_state is ejected,
\* those that failed to give a name included.
C14_AllEjectedListsEveryPlayer ==
    (pc = "done" /\ ending.by \in {"names", "setup", "no_players"}) =>
        /\ outcome.winners = <<>>
        /\ outcome.ejected = Range(input.players)

(***************************************************************************)
(* AsyncReferee.create_initial_game_state as a state machine: one step per *)
(* iteration of its loop over the players.  random.choice and              *)
(* get_random_color are choices of the step; a player is its position in   *)
(* `players`, a color a number; name_results records how each player       *)
(* answered name() (history, read by no step).                             *)
(***************************************************************************)
\* Players handed to create_initial_game_state, at most
MaxPlayers == 3

\* What get_random_color draws from (256^3 colors in the source)
CreateColors == 1..(MaxPlayers + 1)

\* How a player answers name(): _request_player_name gives False only if it raised
NameResults == {"value", "none", "raise"}

_request_player_name(result) == result # "raise"

LinesBoard(width, height) ==
    board_from_rows([r \in 1..height |-> [c \in 1..width |-> <<"LINE", 0>>]])

\* Boards with one, two and four fixed tiles
CreateBoards == {LinesBoard(3, 3), LinesBoard(5, 3), LinesBoard(5, 5)}

\* Board.get_all_fixed_tiles as the list it is: row by row, column by column
get_all_fixed_tiles_list(board) ==
    LET fixed_cols == board.width \div 2
        fixed_rows == board.height \div 2
    IN  [i \in 1..(fixed_cols * fixed_rows) |->
            Coord(2 * ((i - 1) % fixed_cols) + 1, 2 * ((i - 1) \div fixed_cols) + 1)]

\* Mutant: the chosen home stays available.
remove_nothing(list, value) == list

\* list.remove(value)
remove(list, value) ==
    LET i == CHOOSE j \in 1..Len(list) : list[j] = value /\ \A k \in 1..(j - 1) : list[k] # value
    IN  SubSeq(list, 1, i - 1) \o SubSeq(list, i + 1, Len(list))

\* Mutant: the goals are taken from the back of the queue.
initial_player_secrets_from_back(colors, queue) ==
    [secrets |-> [c \in Range(colors) |->
                     PlayerSecret(queue[Len(queue) - index_of(colors, c)], FALSE, 0)],
     goal_queue |-> SubSeq(queue, 1, Len(queue) - Len(colors))]

\* {color: PlayerSecret(self.goal_queue.pop(0), False) for color in player_states.keys()}
\* and the queue it leaves
initial_player_secrets(colors, queue) ==
    [secrets |-> [c \in Range(colors) |->
                     PlayerSecret(queue[index_of(colors, c) + 1], FALSE, 0)],
     goal_queue |-> SubSeq(queue, Len(colors) + 1, Len(queue))]

CreateStart(board, players) ==
    [pc |-> "loop", board |-> board, players |-> players, idx |-> 0,
     fixed_tiles |-> <<>>, possible_homes |-> <<>>, player_states |-> <<>>,
     used_colors |-> <<>>, goal_queue |-> <<>>, name_results |-> <<>>, result |-> None]

InitCreate ==
    /\ gs = None /\ last = None /\ steps = 0 /\ undo_rejected = None
    /\ names = None /\ mutated = {}
    /\ RefereeIdle
    /\ player_obj = None /\ strategy = None
    /\ \E board \in CreateBoards, n \in 1..MaxPlayers :
          create = CreateStart(board, [i \in 1..n |-> i])

\* What create_initial_game_state does after its loop
CreateReturn(c, player_states) ==
    IF Len(player_states) = 0
    THEN [c EXCEPT !.pc = "returned",
                   !.result = [kind |-> "outcome",
                               outcome |-> GameOutcome(<<>>, Range(c.players))]]
    ELSE LET colors == [i \in 1..Len(player_states) |-> player_states[i].color]
             popped == initial_player_secrets(colors, c.goal_queue)
         IN  [c EXCEPT !.pc = "returned",
                       !.goal_queue = popped.goal_queue,
                       !.result =
                           [kind |-> "state",
                            state |-> GameState(
                                colors,
                                [k \in Range(colors) |->
                                    LET ps == player_states[index_of(colors, k) + 1]
                                    IN  PlayerState(ps.home_location, ps.location)],
                                popped.secrets, ColumnsSpare, c.board,
                                EmptyPrevAction, 0)]]

\* The size check and the copy of possible_homes into goal_queue (before the
\* first iteration), one iteration of the loop, and after the last one the rest
\* of the method.
CreateInitialGameState ==
    /\ create.pc = "loop"
    /\ LET first == create.idx = 0
           fixed_tiles == IF first THEN get_all_fixed_tiles_list(create.board)
                          ELSE create.fixed_tiles
           possible_homes == IF first THEN fixed_tiles ELSE create.possible_homes
       IN  IF first /\ Len(possible_homes) < Len(create.players)
           THEN create' = [create EXCEPT !.pc = "raised",
                                         !.result = [kind |-> "ValueError"]]
           ELSE \E random_home \in Range(possible_homes),
                   random_color \in CreateColors \ Range(create.used_colors),
                   name \in NameResults :
                   LET pl == create.players[create.idx + 1]
                       named_ == _request_player_name(name)
                       player_states ==
                           IF named_
                           THEN Append(create.player_states,
                                       [player |-> pl, color |-> random_color,
                                        home_location |-> random_home,
                                        location |-> random_home, name |-> name])
                           ELSE create.player_states
                       homes_left == IF named_ THEN remove(possible_homes, random_home)
                                     ELSE possible_homes
                       c == [create EXCEPT
                               !.idx = @ + 1,
                               !.name_results = Append(@, name),
                               !.fixed_tiles = fixed_tiles,
                               !.possible_homes = homes_left,
                               !.goal_queue = IF first THEN possible_homes ELSE @,
                               !.player_states = player_states,
                               !.used_colors = IF named_ THEN Append(@, random_color) ELSE @]
                   IN  create' = IF c.idx < Len(c.players) THEN c
                                 ELSE CreateReturn(c, player_states)
    /\ UNCHANGED <<stateVars, refVars, playerVars>>

NextCreate == CreateInitialGameState

SpecCreate == InitCreate /\ [][NextCreate]_vars

(***************************************************************************)
(* Claims about create_initial_game_state (checked under SpecCreate)       *)
(***************************************************************************)
\* create_initial_game_state has returned a state
CreatedState == create.pc = "returned" /\ create.result.kind = "state"

\* The homes assigned in the returned state
CreatedHomes ==
    {create.result.state.player_states[c].home_location :
        c \in Range(create.result.state.player_colors)}

\* The initial goals of the returned state, in player order
CreatedGoals ==
    [i \in 1..Len(create.result.state.player_colors) |->
        create.result.state.player_secrets[
            create.result.state.player_colors[i]].treasure_location]

\* C15 as stated: the goal queue holds only fixed tiles that are no player's
\* home, so neither an initial goal nor a goal still in the queue is a
\* coordinate assigned as a home.
C15_GoalsAvoidHomes ==
    CreatedState =>
        /\ Range(CreatedGoals) \cap CreatedHomes = {}
        /\ Range(create.goal_queue) \cap CreatedHomes = {}

\* C15 amended: the goal queue is seeded with every fixed tile of the board,
\* row by row, whatever homes are chosen: the initial goals in player order
\* followed by the queue that is left are all the fixed tiles, each once, in
\* that order.
C15_GoalsFromAllFixedTiles ==
    CreatedState =>
        LET all == CreatedGoals \o create.goal_queue
        IN  /\ Range(all) = get_all_fixed_tiles(create.board)
            /\ Len(all) = Cardinality(get_all_fixed_tiles(create.board))
            /\ \A i, j \in 1..Len(all) :
                  i < j => \/ all[i].row < all[j].row
                           \/ all[i].row = all[j].row /\ all[i].col < all[j].col

\* A state was returned in which a player's initial goal is its own home and a
\* goal still queued is another player's home.
C15_Witness ==
    /\ CreatedState
    /\ \E c \in Range(create.result.state.player_colors) :
          create.result.state.player_secrets[c].treasure_location
              = create.result.state.player_states[c].home_location
    /\ Range(create.goal_queue) \cap CreatedHomes # {}

\* The players whose name call did not fail, in the order of `players`
NamedPlayers ==
    SelectSeq(create.players, LAMBDA pl : create.name_results[pl] # "raise")

Receiver(s, player_names) ==
    [board |-> s.board, spare_tile |-> s.spare_tile, player_colors |-> s.player_colors,
     player_states |-> s.player_states, name |-> player_names,
     player_secrets |-> s.player_secrets, prev_action |-> s.prev_action,
     current_player_index |-> s.current_player_index]

\* GameState.associate_players: new_states is self.player_states itself, so the
\* loop renames the receiver's PlayerState objects, up to the IndexError if
\* there are fewer names than players; the result is built around the same dict.
associate_players(s, player_names, taken_player_names) ==
    LET enough == Len(taken_player_names) >= Len(s.player_colors)
        renamed == [c \in DOMAIN player_names |->
                       IF index_of(s.player_colors, c) < Len(taken_player_names)
                       THEN taken_player_names[index_of(s.player_colors, c) + 1]
                       ELSE player_names[c]]
    IN  [err |-> IF enough THEN "OK" ELSE "IndexError",
         st |-> s, names |-> renamed, self |-> Receiver(s, renamed)]

\* Calls made on one state, at most
MaxCalls == 4

\* One call of a method on gs by a caller that then goes on with the returned
\* state (with gs if the call raised); self is the receiver after the call.
MethodCalled(op, arg, r, new_names, self) ==
    /\ steps < MaxCalls
    /\ steps' = steps + 1
    /\ gs' = r.st
    /\ names' = new_names
    /\ last' = [op |-> op, arg |-> arg, err |-> r.err]
    /\ mutated' = {attribute \in DOMAIN self : self[attribute] # Receiver(gs, names)[attribute]}
    /\ UNCHANGED <<undo_rejected, refVars, createVars, playerVars>>

\* A call of a method that builds its result from new objects, around the
\* PlayerState objects (or copies of them) of the players it keeps
Returned(op, arg, r) ==
    MethodCalled(op, arg, r, [c \in DOMAIN r.st.player_states |-> names[c]],
                 Receiver(gs, names))

MethodRotate == \E degrees \in RotateInputs :
    Returned("rotate_spare_tile", degrees, rotate_spare_tile(gs, degrees))

MethodShift == \E operation \in ShiftInputs :
    Returned("shift_tiles", operation, shift_tiles(gs, operation))

MethodMove == \E dest_coord \in MoveInputs :
    Returned("move_current_player", dest_coord, move_current_player(gs, dest_coord))

MethodEndTurn == Returned("end_current_turn", None, Ok(end_current_turn(gs)))

MethodEjectCurrent == Returned("eject_current_player", None, eject_current_player(gs))

\* on the players and on a color of no player
MethodEject == \E color \in {"A", "B", "Z"} :
    Returned("eject_player", color, eject_player(gs, color))

\* with a goal and with the home of both players
MethodNewGoal == \E new_goal \in {Coord(2, 2), Coord(1, 1)} :
    Returned("set_current_player_new_goal", new_goal,
             Ok(set_current_player_new_goal(gs, new_goal)))

\* with as many names as players, fewer, and more
MethodAssociate == \E taken_player_names \in {<<"Yana", "Alice">>, <<"Bob">>, <<"Yana", "Alice", "Bob">>} :
    \E r \in {associate_players(gs, names, taken_player_names)} :
        MethodCalled("associate_players", taken_player_names, r,
                     IF r.err = "OK" THEN r.names ELSE r.self.name, r.self)

NextMethods ==
    \/ MethodRotate \/ MethodShift \/ MethodMove \/ MethodEndTurn
    \/ MethodEjectCurrent \/ MethodEject \/ MethodNewGoal \/ MethodAssociate

SpecMethods == InitState /\ [][NextMethods]_vars

\* C20: after a call of rotate_spare_tile, shift_tiles, move_current_player,
\* end_current_turn, eject_current_player, eject_player,
\* set_current_player_new_goal or associate_players, whether it returned or
\* raised, no attribute of the receiver (board, spare tile, player states,
\* names, secrets, PrevAction, index) differs from what it was before the call.
C20_NoMethodMutatesReceiver == mutated = {}

(***************************************************************************)
(* Claims about the board and the state methods, one by one (checked under *)
(* SpecState: the boards and states are those the explored calls produce). *)
(***************************************************************************)
\* C21: after an accepted shift_tiles(op), every player that stood in the
\* shifted row or column has moved one cell in op.direction, except that a
\* player that stood on the far-edge cell (the one that leaves the board) stands
\* on op.insert_location; every other player's location, every home and the
\* turn order are unchanged.
C21_ShiftCarriesPlayers ==
    [][IsCall("shift_tiles") =>
          LET op == last'.arg
              d == op.direction
              length == IF is_vertical(d) THEN gs.board.height ELSE gs.board.width
              far_edge == Coord(op.insert_location.col + (length - 1) * dx(d),
                                op.insert_location.row + (length - 1) * dy(d))
              in_line(loc) == IF is_vertical(d) THEN loc.col = op.insert_location.col
                              ELSE loc.row = op.insert_location.row
          IN  /\ gs'.player_colors = gs.player_colors
              /\ DOMAIN gs'.player_states = DOMAIN gs.player_states
              /\ \A c \in DOMAIN gs.player_states :
                    LET before == gs.player_states[c]
                        after == gs'.player_states[c]
                    IN  /\ after.home_location = before.home_location
                        /\ after.location =
                              IF ~in_line(before.location) THEN before.location
                              ELSE IF before.location = far_edge THEN op.insert_location
                              ELSE Coord(before.location.col + dx(d),
                                         before.location.row + dy(d))]_vars

\* A shift was accepted that carried a player off the far edge and back in at
\* the insert location, while the other player stood outside the shifted line.
C21_Witness ==
    /\ last.op = "shift_tiles" /\ last.err = "OK"
    /\ \E c, o \in DOMAIN gs.player_states :
          /\ c # o
          /\ gs.player_states[c].location = last.arg.insert_location
          /\ gs.player_states[o].location.row # last.arg.insert_location.row
          /\ gs.player_states[o].location.col # last.arg.insert_location.col

\* What C22 says of every accepted slide_and_insert_tile(coord, direction, tile)
\* on board, written from the geometry of the line through coord.
SlidesAsStated(board, tile) ==
    \A coord \in BoardCoords(board), d \in Direction :
        LET r == slide_and_insert_tile(board, coord, d, tile)
            length == IF is_vertical(d) THEN board.height ELSE board.width
            line == {c \in BoardCoords(board) :
                        IF is_vertical(d) THEN c.col = coord.col ELSE c.row = coord.row}
            far_edge == Coord(coord.col + (length - 1) * dx(d),
                              coord.row + (length - 1) * dy(d))
        IN  r.err = "OK" =>
              /\ r.board.width = board.width /\ r.board.height = board.height
              /\ DOMAIN r.board.tiles = BoardCoords(board)
              /\ r.board.tiles[coord] = tile
              /\ \A c \in line \ {coord} :
                    r.board.tiles[c] = board.tiles[Coord(c.col - dx(d), c.row - dy(d))]
              /\ r.spare = board.tiles[far_edge]
              /\ \A c \in BoardCoords(board) \ line : r.board.tiles[c] = board.tiles[c]
              /\ DOMAIN r.edit.replacements = line \ {far_edge}
              /\ \A c \in line \ {far_edge} :
                    r.edit.replacements[c] = Coord(c.col + dx(d), c.row + dy(d))
              /\ r.edit.deletions = {far_edge}

\* The state gs is new: a call that raises leaves gs as it was, so every state
\* is first seen at the start or after a call that returned.
NewState == steps = 0 \/ last.err = "OK"

\* The board of gs is new: no earlier state had it (a board is made by an
\* accepted shift, and kept by every other call).
NewBoard == steps = 0 \/ (last.op = "shift_tiles" /\ last.err = "OK")

\* The board or the spare tile of gs is new (a spare tile is made by an accepted
\* shift or an accepted rotation, and kept by every other call).
NewBoardOrSpare == NewBoard \/ (last.op = "rotate_spare_tile" /\ last.err = "OK")

\* C22: after an accepted slide_and_insert_tile(coord, direction, t) the cell at
\* coord holds t, every other cell of the shifted line holds the tile that was
\* one step behind it, the returned tile is the one of the far-edge cell, every
\* cell outside the line holds its tile; the replacements of the BoardEdit map
\* exactly the cells of the line that stayed to their new coordinates and its
\* deletions are exactly the far-edge coordinate.  On every board reached, with
\* every spare tile the state has with it, and on the boards of 7 by 3 and 5 by
\* 3 cells.
C22_SlideAndInsert ==
    /\ NewBoardOrSpare => SlidesAsStated(gs.board, gs.spare_tile)
    /\ steps = 0 => /\ SlidesAsStated(ColumnsBoard, ColumnsSpare)
                    /\ SlidesAsStated(LinesBoard(5, 3), ColumnsSpare)

\* A row and then a column of the board have been shifted, so that the board
\* slid next has tiles in other cells than at the start.
C22_Witness ==
    /\ last.op = "shift_tiles" /\ last.err = "OK" /\ is_vertical(last.arg.direction)
    /\ gs.board.tiles[last.arg.insert_location].gems # 0
    /\ \E c \in BoardCoords(gs.board) :
          c.col # last.arg.insert_location.col /\ gs.board.tiles[c] # RingBoard.tiles[c]

\* What C23 says of every shift request on board: the coordinates tried are the
\* cells of the board and the ring of cells around it.
RejectsAsStated(board) ==
    \A coord \in {Coord(x, y) : x \in (-1)..board.width, y \in (-1)..board.height},
       d \in Direction :
        LET off_board == \/ coord.col < 0 \/ coord.col >= board.width
                         \/ coord.row < 0 \/ coord.row >= board.height
            fixed == coord.col % 2 = 1 \/ coord.row % 2 = 1
            feeds == CASE d = "DOWN" -> coord.row = 0
                       [] d = "UP" -> coord.row = board.height - 1
                       [] d = "RIGHT" -> coord.col = 0
                       [] d = "LEFT" -> coord.col = board.width - 1
            e == assert_valid_shift_and_insert(board, coord, d)
        IN  /\ e = IF off_board THEN "IndexError"
                   ELSE IF fixed THEN "ShiftNotAllowedError"
                   ELSE IF ~feeds THEN "ValueError"
                   ELSE "OK"
            /\ e = "OK" <=> coord \in get_valid_insert_locations(board, d)
            /\ slide_and_insert_tile(board, coord, d, ColumnsSpare).err = e

\* C23: a shift request is rejected with IndexError when the insert coordinate
\* is off the board; otherwise with ShiftNotAllowedError when its row or its
\* column has an odd index; otherwise with ValueError when it is not on the edge
\* that feeds the direction; and it is accepted exactly when the coordinate is
\* in get_valid_insert_locations(direction).  On the board of every state
\* reached, and on boards of 7 by 3, 4 by 3 and 3 by 4 cells.
C23_ShiftRejections ==
    /\ NewBoard => RejectsAsStated(gs.board)
    /\ steps = 0 => /\ RejectsAsStated(ColumnsBoard)
                    /\ RejectsAsStated(LinesBoard(4, 3))
                    /\ RejectsAsStated(LinesBoard(3, 4))

\* After a turn, a shift was asked for at a movable cell of the board that does
\* not feed the direction given, and was refused with ValueError.
C23_Witness ==
    /\ steps > 0 /\ last.op = "shift_tiles" /\ last.err = "ValueError"
    /\ in_bounds(gs.board, last.arg.insert_location)
    /\ last.arg.insert_location.col % 2 = 0 /\ last.arg.insert_location.row % 2 = 0

\* The pairs <<c, d>> with d in reachable_destinations(c), c over the board
Reaches(board) ==
    UNION {{<<c, d>> : d \in reachable_destinations(board, c)} : c \in BoardCoords(board)}

\* C24: for every in-bounds coordinate c of the board, reachable_destinations(c)
\* contains c, and c is in reachable_destinations(d) for every d in it.  (On
\* every board reached, when it appears.)
C24_ReachableReflexiveSymmetric ==
    NewBoard =>
        \E reaches \in {Reaches(gs.board)} :
            /\ \A c \in BoardCoords(gs.board) : <<c, c>> \in reaches
            /\ \A p \in reaches : <<p[2], p[1]>> \in reaches

\* b is next to a, the tile at a has a road toward b and the tile at b has a
\* road toward a.
Linked(board, a, b) ==
    \E d \in Direction :
        /\ b = Coord(a.col + dx(d), a.row + dy(d))
        /\ d \in connected_directions(board.tiles[a])
        /\ flip(d) \in connected_directions(board.tiles[b])

\* The cells a link joins to a cell of cells
LinkedTo(board, cells) ==
    UNION {{Coord(a.col + dx(d), a.row + dy(d)) :
              d \in {e \in connected_directions(board.tiles[a]) :
                        \E b \in {Coord(a.col + dx(e), a.row + dy(e))} :
                            b \in BoardCoords(board) /\ Linked(board, a, b)}} :
           a \in cells}

\* The cells joined to those of cells by a chain of links (least fixed point):
\* more holds the cells one link away from cells.
RECURSIVE Chain(_, _, _)
Chain(board, cells, more) ==
    IF more \subseteq cells THEN cells
    ELSE Chain(board, cells \cup more, LinkedTo(board, more \ cells))

ChainedTo(board, cells) == Chain(board, cells, LinkedTo(board, cells))

\* A road leads out of the cells reachable from start into a cell whose tile
\* has no road back.
OneWayOut(board, start) ==
    \E a \in reachable_destinations(board, start), d \in Direction :
        LET b == Coord(a.col + dx(d), a.row + dy(d))
        IN  /\ d \in connected_directions(board.tiles[a])
            /\ b \in BoardCoords(board)
            /\ b \notin reachable_destinations(board, start)

\* Two cells are reachable from each other on the board of the state, through
\* a third one, and a cell next to one of them is not.
C24_Witness ==
    /\ last.op = "shift_tiles" /\ last.err = "OK"
    /\ \E c, d \in BoardCoords(gs.board) :
          /\ d \in reachable_destinations(gs.board, c)
          /\ d \notin _neighbors(gs.board, c) \cup {c}
          /\ OneWayOut(gs.board, c)

\* C25: reachable_destinations(start) returns (so terminates), and returns
\* exactly the cells joined to start by a chain of orthogonally adjacent cells
\* in which each step goes from a tile with a road toward the next cell to a
\* tile with a road back; a cell that only a one-way road leads to is not in it.
\* (On every board reached, when it appears, from every cell.)
C25_ReachableIsMutualChain ==
    NewBoard =>
        \A start \in BoardCoords(gs.board) :
            reachable_destinations(gs.board, start) = ChainedTo(gs.board, {start})

\* The current player stands, after a shift, where three or more cells are
\* reachable and a one-way road leads out of them.
C25_Witness ==
    /\ last.op = "shift_tiles" /\ last.err = "OK"
    /\ Cardinality(reachable_destinations(gs.board, current_player_state(gs).location)) >= 3
    /\ OneWayOut(gs.board, current_player_state(gs).location)

\* What C26 says of get_legal_shift_ops() in state s, when PrevAction is not PARTIAL
LegalShiftsAsStated(s) ==
    LET all_shifts == {op \in {ShiftOp(c, d) : c \in BoardCoords(s.board), d \in Direction} :
                          op.insert_location \in
                              get_valid_insert_locations(s.board, op.direction)}
        into_board == {ShiftOp(c, d) :
                          c \in {e \in BoardCoords(s.board) : e.col % 2 = 0 /\ e.row % 2 = 0},
                          d \in Direction}
        edge_shifts == {op \in into_board :
                           CASE op.direction = "DOWN" -> op.insert_location.row = 0
                             [] op.direction = "UP" ->
                                    op.insert_location.row = s.board.height - 1
                             [] op.direction = "RIGHT" -> op.insert_location.col = 0
                             [] op.direction = "LEFT" ->
                                    op.insert_location.col = s.board.width - 1}
    IN  /\ get_legal_shift_ops(s) =
              IF s.prev_action.kind = "COMPLETE_TURN"
              THEN all_shifts \ {reverse(s.prev_action.shift, s.board)}
              ELSE all_shifts
        /\ (s.board.width % 2 = 1 /\ s.board.height % 2 = 1) => all_shifts = edge_shifts

\* C26: when PrevAction is not PARTIAL, get_legal_shift_ops() is the set of all
\* (coord, direction) with coord in get_valid_insert_locations(direction), over
\* the four directions, minus the reverse of the last shift when PrevAction is
\* COMPLETE; on a board of odd width and height these are the even-indexed edge
\* cells, each with the direction that points into the board from its edge.
\* In every state reached, and in the same state on a board of 7 by 3 cells.
C26_LegalShiftOps ==
    (NewState /\ gs.prev_action.kind # "PARTIAL_TURN") =>
        /\ LegalShiftsAsStated(gs)
        /\ LegalShiftsAsStated([gs EXCEPT !.board = ColumnsBoard])

\* After a complete turn seven of the eight shifts of the 3 by 3 board are
\* legal: all but the one that undoes the turn's shift.
C26_Witness ==
    /\ gs.prev_action.kind = "COMPLETE_TURN"
    /\ Cardinality(get_legal_shift_ops(gs)) = 7
    /\ reverse(gs.prev_action.shift, gs.board) \notin get_legal_shift_ops(gs)

\* dest is joined to a cell of seen by a chain of links, where seen holds the
\* cells found so far and fresh those of them whose links are still to follow:
\* the least fixed point of ChainedTo, each stage bound once.
RECURSIVE RoadJoins(_, _, _, _)
RoadJoins(board, seen, fresh, dest) ==
    \/ dest \in seen
    \/ \E found \in {UNION {
                {Coord(a.col + dx(d), a.row + dy(d)) :
                    d \in {e \in connected_directions(board.tiles[a]) :
                              \E b \in {Coord(a.col + dx(e), a.row + dy(e))} :
                                  /\ b \in BoardCoords(board)
                                  /\ flip(e) \in connected_directions(board.tiles[b])}} :
                a \in fresh} \ seen} :
          /\ found # {}
          /\ RoadJoins(board, seen \cup found, found, dest)

QuarterTurns == {-5, -4, -3, -1, 0, 1, 2, 4}

\* C28: rotate_spare_tile(d) fails with ValueError unless d is a multiple of 90;
\* otherwise (PrevAction not PARTIAL), for positive, zero and negative d, the
\* spare tile's rotation becomes the one in 0..3 that differs from the old
\* rotation plus d/90 by a multiple of 4; rotating by a then by b gives the same
\* spare tile as rotating by a+b; rotating by a multiple of 360 leaves the
\* tile's connected directions unchanged (and by 360k+90 is rotating by 90);
\* the board, the players, the PrevAction and the current-player index are
\* unchanged.
C28_RotateSpareTile ==
    /\ \A d \in {45, -45, 100, -270 - 1, 360 + 89} :
          rotate_spare_tile(gs, d).err = "ValueError"
    /\ (NewState /\ gs.prev_action.kind # "PARTIAL_TURN") =>
          \A k \in QuarterTurns :
              \E r \in {rotate_spare_tile(gs, 90 * k)} :
                  /\ r.err = "OK"
                  /\ r.st.spare_tile.rotation \in 0..3
                  /\ \E m \in -3..3 :
                        r.st.spare_tile.rotation = gs.spare_tile.rotation + k + 4 * m
                  /\ r.st.spare_tile.shape = gs.spare_tile.shape
                  /\ r.st.spare_tile.gems = gs.spare_tile.gems
                  /\ r.st = [gs EXCEPT !.spare_tile = r.st.spare_tile]
                  /\ (k \in {-4, 0, 4}) =>
                        connected_directions(r.st.spare_tile)
                            = connected_directions(gs.spare_tile)
                  /\ (k \in {-3, 1}) =>
                        r.st.spare_tile = rotate_spare_tile(gs, 90).st.spare_tile
                  /\ \A j \in QuarterTurns :
                        rotate_spare_tile(r.st, 90 * j).st.spare_tile
                            = rotate_spare_tile(gs, 90 * (k + j)).st.spare_tile

\* The spare tile was turned a quarter turn backwards from rotation 0, after a
\* complete turn: its rotation is 3.
C28_Witness ==
    /\ last.op = "rotate_spare_tile" /\ last.err = "OK" /\ last.arg = -90
    /\ gs.prev_action.kind = "COMPLETE_TURN"
    /\ gs.spare_tile.rotation = 3

(***************************************************************************)
(* Claims about the methods of RefereeGameState: eject_player on the       *)
(* states the referee goes through (Spec: one to three players, any of     *)
(* them current), set_current_player_new_goal on the states the methods    *)
(* produce in any order (SpecMethods).                                     *)
(***************************************************************************)
\* What C29 says of eject_player(c) on s
EjectsAsStated(s, c) ==
    LET n == Len(s.player_colors)
        position(colors, p) == CHOOSE i \in 1..Len(colors) : colors[i] = p
        current == s.player_colors[s.current_player_index + 1]
        r == eject_player(s, c)
    IN  IF c \notin {s.player_colors[i] : i \in 1..n} THEN r = Ok(s)
        ELSE IF n = 1 THEN r.err = "NoMorePlayersError"
        ELSE /\ r.err = "OK"
             /\ Len(r.st.player_colors) = n - 1
             /\ {r.st.player_colors[i] : i \in 1..(n - 1)}
                   = {s.player_colors[i] : i \in 1..n} \ {c}
             /\ \A i, j \in 1..(n - 1) :
                   i < j => position(s.player_colors, r.st.player_colors[i])
                                < position(s.player_colors, r.st.player_colors[j])
             /\ DOMAIN r.st.player_states = DOMAIN s.player_states \ {c}
             /\ DOMAIN r.st.player_secrets = DOMAIN s.player_secrets \ {c}
             /\ \A p \in DOMAIN r.st.player_states :
                   /\ r.st.player_states[p] = s.player_states[p]
                   /\ r.st.player_secrets[p] = s.player_secrets[p]
             /\ r.st.board = s.board /\ r.st.spare_tile = s.spare_tile
             /\ r.st.prev_action = s.prev_action
             /\ r.st.current_player_index \in 0..(n - 2)
             /\ r.st.player_colors[r.st.current_player_index + 1] =
                   IF c # current THEN current
                   ELSE s.player_colors[((s.current_player_index + 1) % n) + 1]

\* C29: eject_player(c) removes c's player state and secret and keeps the
\* order of the others; the same player is current afterwards if c was not the
\* current player, and the next player in turn order (the first if c was last)
\* if it was; it raises NoMorePlayersError when c is the only player and returns
\* the state unchanged when c is not in the game; eject_current_player() is
\* eject_player(current color).
C29_EjectPlayer ==
    /\ \A c \in ProbeColors : EjectsAsStated(state, c)
    /\ eject_current_player(state) = eject_player(state, current_player_color(state))

\* The last of three players in turn order was the current one and has been
\* ejected: two players are left and the first one is current.
C29_Witness ==
    /\ pc = "play" /\ turn.kind = "ejected"
    /\ Len(state0.player_colors) = 3 /\ turn.player = state0.player_colors[3]
    /\ state.player_colors = SubSeq(state0.player_colors, 1, 2)
    /\ state.current_player_index = 0

\* What C30 says of set_current_player_new_goal(coord) on s, a state that can
\* see the current player's secret exactly when sees holds
NewGoalAsStated(s, sees, coord) ==
    LET player == s.player_colors[s.current_player_index + 1]
        r == set_current_player_new_goal(s, coord)
    IN  IF ~sees THEN r = s
        ELSE IF s.player_states[player].location
                    # s.player_secrets[player].treasure_location
        THEN r = s
        ELSE LET old == s.player_secrets[player]
                 new == r.player_secrets[player]
             IN  /\ new.treasure_count = old.treasure_count + 1
                 /\ coord = s.player_states[player].home_location =>
                       new.is_going_home /\ new.treasure_location = old.treasure_location
                 /\ coord # s.player_states[player].home_location =>
                       ~new.is_going_home /\ new.treasure_location = coord
                 /\ DOMAIN r.player_secrets = DOMAIN s.player_secrets
                 /\ \A o \in DOMAIN s.player_secrets \ {player} :
                       r.player_secrets[o] = s.player_secrets[o]
                 /\ r = [s EXCEPT !.player_secrets = r.player_secrets]

\* Goals tried for C30: the home of the players, their treasures, another cell
GoalsTried == {Coord(1, 1), Coord(1, 0), Coord(2, 2), Coord(0, 2)}

OddCells(board) == {c \in BoardCoords(board) : c.col % 2 = 1 /\ c.row % 2 = 1}

\* What C33 says of every accepted slide_and_insert_tile on board, whose tiles
\* differ pairwise and from tile: the cells whose tile changed are one whole
\* row or one whole column, of even index; no cell of odd row and odd column
\* is among them, and a player standing on one stays.
FixedTilesStay(board, tile) ==
    \A coord \in BoardCoords(board), d \in Direction :
        \E r \in {slide_and_insert_tile(board, coord, d, tile)} :
            r.err = "OK" =>
               \E changed \in {{c \in BoardCoords(board) : r.board.tiles[c] # board.tiles[c]}} :
                  /\ \/ \E row \in 0..(board.height - 1) :
                           /\ row % 2 = 0
                           /\ changed = {c \in BoardCoords(board) : c.row = row}
                     \/ \E col \in 0..(board.width - 1) :
                           /\ col % 2 = 0
                           /\ changed = {c \in BoardCoords(board) : c.col = col}
                  /\ \A c \in OddCells(board) :
                        /\ r.board.tiles[c] = board.tiles[c]
                        /\ r.spare # board.tiles[c]
                        /\ move_with_board(PlayerState(c, c), r.edit, coord)
                              = PlayerState(c, c)

\* C33: across any sequence of accepted shifts, the tile at every coordinate of
\* odd row and odd column is the one that was there at the start, and a player
\* standing on such a coordinate is not displaced by a shift; every accepted
\* shift changes the tiles of exactly one row or column, whose index is even.
\* On the boards the shifts produce, and for every single shift of boards of 7
\* by 3, 5 by 5 and 4 by 4 cells.
C33_FixedTilesNeverMove ==
    /\ [](/\ \A c \in OddCells(RingBoard) : gs.board.tiles[c] = RingBoard.tiles[c]
          /\ NewBoardOrSpare => FixedTilesStay(gs.board, gs.spare_tile)
          /\ steps = 0 => /\ FixedTilesStay(ColumnsBoard, ColumnsSpare)
                          /\ FixedTilesStay(LinesBoard(5, 5), ColumnsSpare)
                          /\ FixedTilesStay(LinesBoard(4, 4), ColumnsSpare))
    /\ [][IsCall("shift_tiles") =>
             /\ \/ is_vertical(last'.arg.direction) /\ last'.arg.insert_location.col % 2 = 0
                \/ is_horizontal(last'.arg.direction) /\ last'.arg.insert_location.row % 2 = 0
             /\ \A p \in DOMAIN gs.player_states :
                   gs.player_states[p].location \in OddCells(gs.board) =>
                      gs'.player_states[p] = gs.player_states[p]]_vars

\* A column was shifted after a row had been, with a player standing on the
\* cell of odd row and odd column.
C33_Witness ==
    /\ steps >= 3 /\ last.op = "shift_tiles" /\ last.err = "OK"
    /\ is_vertical(last.arg.direction)
    /\ \E c \in BoardCoords(gs.board) : c.col # last.arg.insert_location.col
                                          /\ gs.board.tiles[c] # RingBoard.tiles[c]
    /\ \E p \in DOMAIN gs.player_states : gs.player_states[p].location = Coord(1, 1)

\* What C35 says of board and the tile t: of every shift that is valid on board
\* and whose reverse is valid on board too.
ReversesAsStated(board, t) ==
    \A coord \in BoardCoords(board), d \in Direction :
        \E op \in {ShiftOp(coord, d)} :
        \E back \in {reverse(op, board)} :
            (/\ assert_valid_shift_and_insert(board, coord, d) = "OK"
             /\ assert_valid_shift_and_insert(board, back.insert_location, back.direction)
                   = "OK") =>
               /\ reverse(back, board) = op
               /\ \E there \in {slide_and_insert_tile(board, coord, d, t)} :
                  \E again \in {slide_and_insert_tile(there.board, back.insert_location,
                                                      back.direction, there.spare)} :
                     /\ there.err = "OK" /\ again.err = "OK"
                     /\ again.board = board
                     /\ again.spare = t

\* C35: for every valid shift op of a board whose reverse op.reverse(board) is
\* valid on that board too, op.reverse(board).reverse(board) is op, and sliding
\* with op, inserting t, then with op.reverse(board), inserting the tile that
\* came out, gives the board back and t out.  On every board reached with every
\* spare tile, and on boards of 7 by 3, 5 by 5, 1 by 1, 3 by 1 and 4 by 3 cells.
C35_ReverseUndoesShift ==
    /\ NewBoardOrSpare => ReversesAsStated(gs.board, gs.spare_tile)
    /\ steps = 0 => /\ ReversesAsStated(ColumnsBoard, ColumnsSpare)
                    /\ ReversesAsStated(LinesBoard(5, 5), ColumnsSpare)
                    /\ ReversesAsStated(LinesBoard(1, 1), ColumnsSpare)
                    /\ ReversesAsStated(LinesBoard(3, 1), ColumnsSpare)
                    /\ ReversesAsStated(LinesBoard(4, 3), ColumnsSpare)

\* A shift was accepted; sliding the board it made with that shift again gives
\* another board, and sliding that one with the reverse gives the board back.
C35_Witness ==
    /\ steps >= 3 /\ last.op = "shift_tiles" /\ last.err = "OK"
    /\ \E back \in {reverse(last.arg, gs.board)} :
       \E there \in {slide_and_insert_tile(gs.board, last.arg.insert_location,
                                           last.arg.direction, gs.spare_tile)} :
          /\ there.err = "OK" /\ there.board # gs.board
          /\ back # last.arg
          /\ slide_and_insert_tile(there.board, back.insert_location, back.direction,
                                   there.spare).board = gs.board

\* The cells of board and of the ring of cells around it
CellsAround(board) == {Coord(x, y) : x \in -1..board.width, y \in -1..board.height}

\* What C36 says of the state s: for every cell of the board and around it and
\* every direction.
QueriesAgree(s) ==
    /\ \E legal \in {get_legal_shift_ops(s)} :
          /\ legal \subseteq {ShiftOp(c, d) : c \in CellsAround(s.board), d \in Direction}
          /\ \A c \in CellsAround(s.board), d \in Direction :
                ShiftOp(c, d) \in legal <=> shift_tiles(s, ShiftOp(c, d)).err = "OK"
    /\ \E legal \in {get_legal_move_destinations(s)} :
          /\ legal \subseteq CellsAround(s.board)
          /\ \A dest \in CellsAround(s.board) :
                dest \in legal <=> move_current_player(s, dest).err = "OK"

\* s on another board, if s can be a state of that board: no shift logged yet,
\* or the logged shift is one that board accepts.
OnBoard(s, board) ==
    IF \/ s.prev_action.kind = "EMPTY"
       \/ assert_valid_shift_and_insert(board, s.prev_action.shift.insert_location,
                                        s.prev_action.shift.direction) = "OK"
    THEN {[s EXCEPT !.board = board]} ELSE {}

\* C36: in every state, a ShiftOp is in get_legal_shift_ops() exactly when
\* shift_tiles of it raises no error, and a coordinate is in
\* get_legal_move_destinations() exactly when move_current_player to it raises
\* no error.  In every state the methods produce in any order (two players or
\* one left); and, after each accepted shift and move, in the view of the state
\* the current player is given and in the same state on a board of 4 by 3
\* cells.
C36_QueriesAgreeWithTransitions ==
    /\ NewState => QueriesAgree(gs)
    /\ (last.err = "OK" /\ last.op \in {"shift_tiles", "move_current_player"}) =>
          /\ QueriesAgree(_restrict_game_state(gs, current_player_color(gs)))
          /\ \A s \in OnBoard(gs, LinesBoard(4, 3)) : QueriesAgree(s)

\* States of each kind were reached in which the queries are not empty: after a
\* complete turn a shift is refused as an undo, and after a shift the player
\* can reach a cell and cannot reach another.
C36_Witness ==
    /\ gs.prev_action.kind = "PARTIAL_TURN" /\ last.op = "shift_tiles" /\ last.err = "OK"
    /\ steps >= 3
    /\ get_legal_move_destinations(gs) # {}
    /\ \E dest \in BoardCoords(gs.board) :
          move_current_player(gs, dest).err = "OffroadingError"
    /\ OnBoard(gs, LinesBoard(4, 3)) # {}

\* The gem pairs of the tiles of the board of s and of its spare tile
GemsOf(s) == {s.board.tiles[c].gems : c \in DOMAIN s.board.tiles} \cup {s.spare_tile.gems}

\* C34: every state reached from a valid RefereeGameState by accepted
\* rotate_spare_tile, shift_tiles, move_current_player, end_current_turn,
\* set_current_player_new_goal, eject_player and eject_current_player calls in
\* any order has a tile at exactly the cells of its width by height rectangle;
\* the gem pairs of its board tiles and spare tile differ pairwise and are those
\* of the initial state; every location and home is in bounds; every home is on
\* a cell of odd row and odd column and is the home of the initial state; the
\* secrets have the keys of the player states; there is a player and the
\* current-player index is in range.
C34_ConstructionInvariantsKept ==
    /\ gs.board.width = RingBoard.width /\ gs.board.height = RingBoard.height
    /\ DOMAIN gs.board.tiles = BoardCoords(gs.board)
    /\ Cardinality(GemsOf(gs)) = gs.board.width * gs.board.height + 1
    /\ GemsOf(gs) = GemsOf(StateInit(0))
    /\ \A p \in DOMAIN gs.player_states :
          /\ in_bounds(gs.board, gs.player_states[p].location)
          /\ in_bounds(gs.board, gs.player_states[p].home_location)
          /\ gs.player_states[p].home_location \in OddCells(gs.board)
          /\ gs.player_states[p].home_location = StateInit(0).player_states[p].home_location
    /\ DOMAIN gs.player_secrets = DOMAIN gs.player_states
    /\ DOMAIN gs.player_states = Range(gs.player_colors)
    /\ Len(gs.player_colors) = Cardinality(Range(gs.player_colors))
    /\ Len(gs.player_colors) >= 1
    /\ gs.current_player_index \in 0..(Len(gs.player_colors) - 1)

\* A player was ejected after a complete turn: one player is left, not where
\* it stood at the start, on a board other than the initial one.
C34_Witness ==
    /\ last.op \in {"eject_player", "eject_current_player"} /\ last.err = "OK"
    /\ Len(gs.player_colors) = 1
    /\ gs.prev_action.kind = "COMPLETE_TURN"
    /\ gs.board # RingBoard
    /\ \E p \in DOMAIN gs.player_states :
          gs.player_states[p].location # StateInit(0).player_states[p].location

(***************************************************************************)
(* Claims about what the referee shows to observers and to players         *)
(* (checked under Spec)                                                    *)
(***************************************************************************)
\* The number of turns the referee has processed: every one is one take_turn call
RECURSIVE TurnsOf(_, _)
TurnsOf(counts, players) ==
    IF players = {} THEN 0
    ELSE LET p == CHOOSE q \in players : TRUE
         IN  counts[p].take_turn + TurnsOf(counts, players \ {p})

TurnsProcessed == TurnsOf(calls, DOMAIN calls)

\* 1 if _configure_game returned a state (some player passed setup), else 0
StatesAfterSetup == IF state0 = None THEN 0 ELSE 1

\* The step is a processed turn
IsTurn == TurnsOf(calls', DOMAIN calls') = TurnsProcessed + 1

WholeTurn == {"EMPTY", "COMPLETE_TURN"}

\* The players of s and where they stand
Standing(s) == [c \in Range(s.player_colors) |-> s.player_states[c].location]

\* C37: in a game started from a state whose PrevAction is not PARTIAL, the
\* state the referee carries from turn to turn, the view it passes to setup and
\* take_turn and the state it sends to the observers have PrevAction EMPTY or
\* COMPLETE_TURN at every moment.  A processed turn either applies a whole
\* action (the board and spare are those of its rotation and shift, the
\* PrevAction is COMPLETE_TURN with its shift, the mover stands on its
\* destination) or changes nothing of board, spare tile, PrevAction and the
\* locations of the players that stay.
C37_NoPartialTurnInGame ==
    /\ [](input.state.prev_action.kind \in WholeTurn =>
            /\ state.prev_action.kind \in WholeTurn
            /\ view # None => view.prev_action.kind \in WholeTurn
            /\ observer.last_state # None =>
                  observer.last_state.prev_action.kind \in WholeTurn)
    /\ [][IsTurn =>
            /\ view'.prev_action = state.prev_action
            /\ IF turn'.kind = "move"
               THEN \E a \in {t \in TurnActions : t.kind = "move"} :
                    \E r \in {apply_turn_action(state, a)} :
                       /\ r.err = "OK"
                       /\ state'.board = r.st.board
                       /\ state'.spare_tile = r.st.spare_tile
                       /\ state'.prev_action = CompleteTurnPrevAction(a.shift)
                       /\ Standing(state') = Standing(r.st)
                       /\ Standing(state')[turn'.player] = a.movement
               ELSE /\ state'.board = state.board
                    /\ state'.spare_tile = state.spare_tile
                    /\ state'.prev_action = state.prev_action
                    /\ \A c \in Range(state'.player_colors) :
                          Standing(state')[c] = Standing(state)[c]]_vars

\* After a whole turn was applied, the next player was handed that state and
\* answered with a shift the board accepts and a move it refuses: the player
\* was ejected, the state sent to the observers and carried on still has the
\* COMPLETE_TURN of the turn before and its board.
C37_Witness ==
    /\ pc = "play"
    /\ turn.kind = "ejected" /\ turn.err = "OffroadingError"
    /\ view # None /\ view.prev_action.kind = "COMPLETE_TURN"
    /\ state.prev_action = view.prev_action /\ state.board = view.board
    /\ observer.last_state = Shown(state)

\* C39: the game ends as a home arrival only by a turn in which the acting
\* player made an accepted move that ended on its home; a turn in which the
\* player passes never ends the game as a home arrival.
C39_HomeArrivalOnlyByMove ==
    ending.by = "home" =>
        /\ turn.player = ending.trigger
        /\ turn.kind = "move"
        /\ state.player_states[ending.trigger].location
              = state.player_states[ending.trigger].home_location

\* The reference Player of color c after the calls the referee has made to it:
\* setup(state, goal) with its view of the state and its first goal, then the
\* setup(None, goal) calls of goals_sent that went to c, in order.
RECURSIVE AfterGoals(_, _, _)
AfterGoals(p, c, sent) ==
    IF sent = <<>> THEN p
    ELSE AfterGoals(IF Head(sent).player = c
                    THEN Player_setup(p, None, Head(sent).goal).st ELSE p,
                    c, Tail(sent))

ReferencePlayer(c) ==
    AfterGoals(Player_setup(NewPlayer, _restrict_game_state(state0, c),
                            state0.player_secrets[c].treasure_location).st,
               c, goals_sent)

NothingCollected(s) ==
    \A c \in DOMAIN s.player_secrets :
        ~s.player_secrets[c].is_going_home /\ s.player_secrets[c].treasure_count = 0

\* C38: in a game started from a state in which every secret has is_going_home
\* false and treasure_count 0, whenever the referee is about to call take_turn,
\* the secret a reference Player of any color still in the game holds is the
\* secret the referee holds for it, the Player is in GAMEPLAY, and the state
\* the current Player gives its strategy is the view the referee passes.
C38_PlayerSecretFollowsReferee ==
    (pc = "play" /\ NothingCollected(input.state)) =>
        /\ \A c \in Range(state.player_colors) :
              /\ ReferencePlayer(c).phase = "GAMEPLAY"
              /\ ReferencePlayer(c).player_secret = state.player_secrets[c]
              /\ ReferencePlayer(c).player_state.home_location
                    = state.player_states[c].home_location
        /\ \E c \in {current_player_color(state)} :
           \E s \in {_restrict_game_state(state, c)} :
              Player_take_turn(ReferencePlayer(c), s) =
                  PlayerResult("OK", ReferencePlayer(c), s)

\* A fresh game in which one player was sent a new treasure and then its home
\* (it is going home with two treasures counted) and the other a new treasure,
\* and the referee is about to ask for a turn.
C38_Witness ==
    /\ pc = "play" /\ NothingCollected(input.state)
    /\ Len(goals_sent) >= 3
    /\ \E c, d \in Range(state.player_colors) :
          /\ c # d
          /\ ReferencePlayer(c).player_secret.is_going_home
          /\ ReferencePlayer(c).player_secret.treasure_count = 2
          /\ state.player_secrets[c].treasure_count = 2
          /\ ReferencePlayer(d).player_secret.treasure_count = 1
          /\ ~ReferencePlayer(d).player_secret.is_going_home

(***************************************************************************)
(* A Player object called by anyone, in any order (SpecPlayer): one step   *)
(* per call of propose_board0, setup, take_turn or win.  player_obj holds  *)
(* the Player (self), the last call (method, whether state0 was given, the *)
(* exception or "OK", the value returned), the number of calls so far and  *)
(* the number of win calls that returned.                                  *)
(***************************************************************************)
\* The states given to setup and take_turn: the views of both players
PlayerViews == {_restrict_game_state(StateInit(0), c) : c \in Range(StatePlayers)}

\* The goals given to setup: a treasure, another, and the home of both players
PlayerGoals == {Coord(1, 0), Coord(2, 2), Coord(1, 1)}

\* The board sizes given to propose_board0: rows and columns of 0 to 2
BoardSizes == 0..2

InitPlayer ==
    /\ gs = None /\ last = None /\ steps = 0 /\ undo_rejected = None
    /\ names = None /\ mutated = {}
    /\ RefereeIdle /\ create = None /\ strategy = None
    /\ player_obj = [self |-> NewPlayer,
                     call |-> [method |-> "__init__", with_state |-> FALSE,
                               err |-> "OK", value |-> None],
                     calls |-> 0, wins |-> 0]

PlayerCalled(method, with_state, r) ==
    /\ player_obj.calls < MaxCalls
    /\ player_obj' = [self |-> r.st,
                      call |-> [method |-> method, with_state |-> with_state,
                                err |-> r.err, value |-> r.value],
                      calls |-> player_obj.calls + 1,
                      wins |-> IF method = "win" /\ r.err = "OK"
                               THEN player_obj.wins + 1 ELSE player_obj.wins]
    /\ UNCHANGED <<stateVars, refVars, createVars, strategy>>

PlayerProposeBoard0 == \E rows \in BoardSizes, columns \in BoardSizes :
    PlayerCalled("propose_board0", FALSE, Player_propose_board0(player_obj.self, rows, columns))

PlayerSetup == \E state0_ \in PlayerViews, goal \in PlayerGoals :
    PlayerCalled("setup", TRUE, Player_setup(player_obj.self, state0_, goal))

PlayerNewGoal == \E goal \in PlayerGoals :
    PlayerCalled("setup", FALSE, Player_setup(player_obj.self, None, goal))

PlayerTakeTurn == \E s \in PlayerViews :
    PlayerCalled("take_turn", TRUE, Player_take_turn(player_obj.self, s))

PlayerWin == \E w \in BOOLEAN :
    PlayerCalled("win", FALSE, Player_win(player_obj.self, w))

NextPlayer == PlayerProposeBoard0 \/ PlayerSetup \/ PlayerNewGoal \/ PlayerTakeTurn \/ PlayerWin

SpecPlayer == InitPlayer /\ [][NextPlayer]_vars

(***************************************************************************)
(* Claims about the reference Player (checked under SpecPlayer)            *)
(***************************************************************************)
\* The phase in which the call is accepted and the phase it leaves the Player in
AcceptedIn(call) ==
    IF call.method = "propose_board0" THEN [from |-> "SETUP", to |-> "SETUP"]
    ELSE IF call.method = "setup" /\ call.with_state THEN [from |-> "SETUP", to |-> "GAMEPLAY"]
    ELSE IF call.method \in {"setup", "take_turn"} THEN [from |-> "GAMEPLAY", to |-> "GAMEPLAY"]
    ELSE [from |-> "GAMEPLAY", to |-> "SCORING"]

\* C31: a Player starts in SETUP.  A call made in the phase that accepts it
\* (propose_board0 and setup(state, goal) in SETUP; setup(None, goal),
\* take_turn and win in GAMEPLAY) does not raise IncorrectPhaseError and, when
\* it returns, leaves the Player in SETUP after propose_board0, in GAMEPLAY
\* after either setup and after take_turn, in SCORING after win; setup,
\* take_turn and win return whenever they are accepted.  A call made in any
\* other phase raises IncorrectPhaseError and leaves the Player as it was.
\* So the phase never goes back, and win returns at most once.
C31_PlayerPhaseMachine ==
    /\ [](/\ player_obj.self.phase \in ProtocolPhase
          /\ player_obj.calls = 0 => player_obj.self.phase = "SETUP"
          /\ player_obj.wins <= 1
          /\ player_obj.wins = 1 <=> player_obj.self.phase = "SCORING")
    /\ [][\E phases \in {AcceptedIn(player_obj'.call)} :
             IF player_obj.self.phase = phases.from
             THEN /\ player_obj'.call.err # "IncorrectPhaseError"
                  /\ player_obj'.call.method # "propose_board0" => player_obj'.call.err = "OK"
                  /\ player_obj'.self.phase =
                        IF player_obj'.call.err = "OK" THEN phases.to ELSE phases.from
             ELSE /\ player_obj'.call.err = "IncorrectPhaseError"
                  /\ player_obj'.self = player_obj.self]_vars

\* A Player that went through setup, a turn and win, and then refused a second
\* win: it is in SCORING with one win call returned.
C31_Witness ==
    /\ player_obj.calls = 4 /\ player_obj.wins = 1
    /\ player_obj.self.phase = "SCORING"
    /\ player_obj.call.method = "win" /\ player_obj.call.err = "IncorrectPhaseError"

(***************************************************************************)
(* The strategies on their own: a state is given to RiemannStrategy or to  *)
(* EuclidStrategy, and the move it answers is replayed on that state       *)
(* (SpecStrategy).                                                         *)
(***************************************************************************)
\* A board on which the player of the middle cell is walled in whatever the
\* shift: the cells above and below it are always closed towards it.
WallsBoard ==
    board_from_rows(<<
        << <<"LINE", 1>>,   <<"LINE", 1>>, <<"LINE", 1>>   >>,
        << <<"CORNER", 0>>, <<"LINE", 0>>, <<"CORNER", 3>> >>,
        << <<"LINE", 1>>,   <<"LINE", 1>>, <<"LINE", 1>>   >> >>)

\* The states given to the strategies, as the referee restricts them for
\* player A: A anywhere on the board, its treasure anywhere on the board or
\* already collected, before the first turn or after a complete turn.
StrategyStates ==
    {_restrict_game_state(
         [StateInit(0) EXCEPT !.board = board, !.spare_tile = spare_tile,
                              !.prev_action = prev_action,
                              !.player_states["A"] = with_location(@, location),
                              !.player_secrets["A"] = secret],
         "A") :
        board \in {RingBoard, WallsBoard},
        spare_tile \in {RingSpare, Tile("CORNER", 0, 0)},
        prev_action \in {EmptyPrevAction,
                         CompleteTurnPrevAction(ShiftOp(Coord(0, 0), "RIGHT")),
                         CompleteTurnPrevAction(ShiftOp(Coord(2, 2), "UP"))},
        location \in BoardCoords(RingBoard),
        secret \in {PlayerSecret(goal, FALSE, 0) : goal \in BoardCoords(RingBoard)}
                       \cup {PlayerSecret(Coord(1, 0), TRUE, 1)}}

InitStrategy ==
    /\ gs = None /\ last = None /\ steps = 0 /\ undo_rejected = None
    /\ names = None /\ mutated = {}
    /\ RefereeIdle /\ create = None /\ player_obj = None
    /\ \E s \in StrategyStates :
           strategy = [pc |-> "given", state |-> s, which |-> "",
                       action |-> None, replay |-> None]

\* strategy.get_action(state), for either strategy
GetAction == \E which \in {"Riemann", "Euclid"} :
    /\ strategy.pc = "given"
    /\ strategy' = [strategy EXCEPT !.pc = "answered", !.which = which,
                                    !.action = get_action(which, strategy.state)]
    /\ UNCHANGED <<stateVars, refVars, createVars, player_obj>>

\* state.rotate_spare_tile(degrees).shift_tiles(shift).move_current_player(movement)
\* for the move the strategy answered
Replay ==
    /\ strategy.pc = "answered"
    /\ strategy.action.err = "OK" /\ strategy.action.st.kind = "move"
    /\ strategy' = [strategy EXCEPT !.pc = "replayed",
                                    !.replay = apply_turn_action(strategy.state,
                                                                 strategy.action.st)]
    /\ UNCHANGED <<stateVars, refVars, createVars, player_obj>>

NextStrategy == GetAction \/ Replay

SpecStrategy == InitStrategy /\ [][NextStrategy]_vars

(***************************************************************************)
(* Claims about the strategies (checked under SpecStrategy)                *)
(***************************************************************************)
\* The goal the current player of s is after: its home once it has its
\* treasure, its treasure before
ActiveGoal(s) ==
    IF get_current_player_secret(s).is_going_home
    THEN current_player_state(s).home_location
    ELSE get_current_player_secret(s).treasure_location

\* The legal destinations of the current player of s after the spare tile is
\* rotated by degrees and inserted by shift
LegalDestinations(s, shift, degrees) ==
    LET rotated_state == rotate_spare_tile(s, degrees)
    IN  IF rotated_state.err # "OK" THEN {}
        ELSE LET shifted_state == shift_tiles(rotated_state.st, shift)
             IN  IF shifted_state.err # "OK" THEN {}
                 ELSE get_legal_move_destinations(shifted_state.st)

\* The cells that some legal shift and some rotation make a legal destination
ReachableThisTurn(s) ==
    UNION {LegalDestinations(s, shift, degrees) :
               shift \in get_legal_shift_ops(s), degrees \in {0, 90, 180, 270}}

\* C40: given a restricted state whose previous action is not PARTIAL and whose
\* current player owns the strategy, get_action of RiemannStrategy and of
\* EuclidStrategy returns; it answers a move to the active goal when some
\* legal shift and some rotation of 0, 90, 180 or 270 degrees make the goal a
\* legal destination; otherwise a move to another cell when some legal shift
\* and rotation make one a legal destination; and a pass only when none does.
\* The shift of a move it answers is legal, its rotation is one of the four,
\* its destination is legal after them, and the move replays on the state
\* through rotate_spare_tile, shift_tiles and move_current_player without
\* error, leaving the player on the destination.
C40_FirstViableMove ==
    /\ strategy.pc = "answered" =>
           \E reachable \in {ReachableThisTurn(strategy.state)},
              goal \in {ActiveGoal(strategy.state)}, answer \in {strategy.action} :
               /\ strategy.state.prev_action.kind # "PARTIAL_TURN"
               /\ current_player_color(strategy.state) = strategy.state.player_color
               /\ answer.err = "OK"
               /\ IF goal \in reachable
                  THEN answer.st.kind = "move" /\ answer.st.movement = goal
                  ELSE IF reachable # {}
                  THEN /\ answer.st.kind = "move"
                       /\ answer.st.movement \in reachable \ {goal}
                  ELSE answer.st = TurnPass
               /\ answer.st.kind = "move" =>
                      /\ answer.st.shift \in get_legal_shift_ops(strategy.state)
                      /\ answer.st.degrees \in {0, 90, 180, 270}
                      /\ answer.st.movement \in
                             LegalDestinations(strategy.state, answer.st.shift,
                                               answer.st.degrees)
    /\ strategy.pc = "replayed" =>
           /\ strategy.replay.err = "OK"
           /\ current_player_state(strategy.replay.st).location
                  = strategy.action.st.movement
           /\ strategy.replay.st.prev_action
                  = CompleteTurnPrevAction(strategy.action.st.shift)

\* A move to the goal that needed the spare tile rotated, replayed
C40_Witness ==
    /\ strategy.pc = "replayed" /\ strategy.replay.err = "OK"
    /\ strategy.action.st.movement = ActiveGoal(strategy.state)
    /\ strategy.action.st.degrees # 0

\* A move to another cell: the goal cannot be reached this turn
C40_OtherCellReached ==
    /\ strategy.pc = "replayed" /\ strategy.replay.err = "OK"
    /\ strategy.action.st.movement # ActiveGoal(strategy.state)

\* A pass: nothing can be reached this turn
C40_PassReached ==
    /\ strategy.pc = "answered" /\ strategy.action.st = TurnPass

====
